---------------------------- MODULE Spec2Model ----------------------------
(* CanROC completion wizard (app/services/wizard_service.py) and the     *)
(* schema lookups it relies on (app/services/schema_service.py); the     *)
(* ZOLL bundle ingestion (app/services/ingestion_service.py), the        *)
(* session import and retry (app/services/session_service.py) and the    *)
(* JcLS score (app/services/jcls_service.py); the service singletons and *)
(* their schema cache across a change of the active service              *)
(* (app/service_context.py).                                             *)
(*                                                                       *)
(* Python strings are sequences of one-character strings, so that        *)
(* str.strip(), int(float(s)) and the "%.Nf" formatting are computed.    *)
(* Python's None is the one-element sequence <<"None">>, which no string *)
(* of the model can equal.                                               *)
EXTENDS Integers, Sequences, FiniteSets, TLC

VARIABLES
    template_id,     \* CanrocWizardState.template_id
    wizard_state,    \* the CanrocWizardState record
    now,             \* the instant of the next call, as datetime.now() returns it
    last,            \* the last wizard call: its name, inputs and result
    dep_in,          \* evaluate_dependencies: the inputs of a call
    dep_out,         \* evaluate_dependencies: the pair the call returned
    zip_in,          \* ingest_zip: the bundle at zip_path
    zip_out,         \* ingest_zip: what the call returned or raised
    SESSIONS,        \* the list of session records
    artifact_file,   \* the stored artifact file: <<bundle>>, <<>> once deleted
    call,            \* the last import or retry call and what it returned
    jcls_in,         \* calculate_jcls_score: metrics and shocks_delivered
    jcls_out,        \* calculate_jcls_score: the result
    _active_service_slug,   \* service_context: the active service, or None
    changes,         \* how many times the active service was set or cleared
    _schema_service, \* schema_service: the singleton, 0 for None
    _wizard_service, \* wizard_service: the singleton, 0 for None
    schema_services, \* the SchemaService objects created so far
    wizard_services, \* the WizardService objects created so far
    handlers,        \* the local references of the request handlers
    schema_read      \* the schemas the last step read, with the instant

wizard_vars == <<template_id, wizard_state, now, last>>
deps_vars == <<dep_in, dep_out>>
ingest_vars == <<zip_in, zip_out>>
session_vars == <<SESSIONS, artifact_file, call>>
jcls_vars == <<jcls_in, jcls_out>>
ctx_vars == <<_active_service_slug, changes, _schema_service, _wizard_service,
              schema_services, wizard_services, handlers, schema_read>>

vars == <<template_id, wizard_state, now, last, dep_in, dep_out, zip_in,
          zip_out, SESSIONS, artifact_file, call, jcls_in, jcls_out,
          _active_service_slug, changes, _schema_service, _wizard_service,
          schema_services, wizard_services, handlers, schema_read>>

-----------------------------------------------------------------------------
(* Bounds *)

MaxCalls == 2            \* wizard calls made on one WizardState
MaxRules == 3

-----------------------------------------------------------------------------
(* Values *)

None == <<"None">>

S1(a) == <<a>>
S2(a, b) == <<a, b>>
S3(a, b, c) == <<a, b, c>>

Digits == {"0", "1", "2", "3", "4", "5", "6", "7", "8", "9"}

RECURSIVE LStrip(_)
LStrip(s) == IF s # <<>> /\ Head(s) = " " THEN LStrip(Tail(s)) ELSE s

RECURSIVE RStrip(_)
RStrip(s) ==
    IF s # <<>> /\ s[Len(s)] = " " THEN RStrip(SubSeq(s, 1, Len(s) - 1)) ELSE s

Strip(s) == RStrip(LStrip(s))

\* index of the first "." of s, or 0
RECURSIVE DotAt(_, _)
DotAt(s, i) ==
    IF i > Len(s) THEN 0 ELSE IF s[i] = "." THEN i ELSE DotAt(s, i + 1)

AllDigits(s) == \A i \in 1..Len(s) : s[i] \in Digits

IntDigits(s) == IF DotAt(s, 1) = 0 THEN s ELSE SubSeq(s, 1, DotAt(s, 1) - 1)

FracDigits(s) ==
    IF DotAt(s, 1) = 0 THEN <<>> ELSE SubSeq(s, DotAt(s, 1) + 1, Len(s))

\* float(s) succeeds: digits with at most one ".", at least one digit
IsFloatLiteral(s) ==
    /\ AllDigits(IntDigits(s))
    /\ AllDigits(FracDigits(s))
    /\ Len(IntDigits(s)) + Len(FracDigits(s)) > 0

RECURSIVE DropLeadingZeros(_)
DropLeadingZeros(s) ==
    IF Len(s) > 1 /\ Head(s) = "0" THEN DropLeadingZeros(Tail(s)) ELSE s

\* str(int(float(s))): the integral part, truncated toward zero
IntStr(s) == IF IntDigits(s) = <<>> THEN S1("0") ELSE DropLeadingZeros(IntDigits(s))

RECURSIVE PadZeros(_, _)
PadZeros(s, n) == IF Len(s) >= n THEN s ELSE PadZeros(s \o S1("0"), n)

\* f"{float(s):.{decimals}f}"; the literals of the model carry at most
\* `decimals` fractional digits, so the formatting only pads
FloatStr(s, decimals) ==
    IF decimals = 0 THEN IntStr(s)
    ELSE IntStr(s) \o S1(".") \o PadZeros(FracDigits(s), decimals)

NormalizeValue(value, field_type, decimals) ==
    IF value = None \/ Strip(value) = <<>> THEN
        [value |-> S1("."), state |-> "normalized"]
    ELSE IF Strip(value) = S1(".") THEN
        [value |-> S1("."), state |-> "normalized"]
    ELSE LET str_value == Strip(value) IN
        IF field_type = "integer" THEN
            IF IsFloatLiteral(str_value)
            THEN [value |-> IntStr(str_value), state |-> "filled"]
            ELSE [value |-> str_value, state |-> "filled"]
        ELSE IF field_type = "float" THEN
            IF IsFloatLiteral(str_value)
            THEN [value |-> FloatStr(str_value, decimals), state |-> "filled"]
            ELSE [value |-> str_value, state |-> "filled"]
        ELSE [value |-> str_value, state |-> "filled"]

-----------------------------------------------------------------------------
(* Schema definitions (data/schemas/canroc_*_schema.json, read by         *)
(* SchemaService.load_schema).  Two small schemas with the structure the  *)
(* services read: pages of fields, a static required-fields list, a       *)
(* minimum completion ratio and per-field dependency rules.               *)

NoDecimals == -1        \* the field has no "decimals" key

\* a rule; its expected value is a string (value) or a list (value_list)
Dep(fid, cond, val, isList, act) ==
    [field_id |-> fid, condition |-> cond,
     value |-> IF isList THEN None ELSE val,
     value_list |-> IF isList THEN val ELSE <<>>,
     value_is_list |-> isList, action |-> act]

FieldDef(fid, type, decimals, required, deps, cno, cnoDefault, choices) ==
    [field_id |-> fid, type |-> type, decimals |-> decimals,
     required |-> required, dependencies |-> deps,
     cno_allowed |-> cno, cno_default |-> cnoDefault, choices |-> choices]

MasterSchema ==
    [pages |-> <<
        [page_id |-> 1, fields |-> <<
            FieldDef("cr_wit", "choice", NoDecimals, TRUE, <<>>,
                     TRUE, S1("9"), <<S1("y"), S1("n")>>),
            FieldDef("cr_byst", "choice", NoDecimals, FALSE,
                     <<Dep("cr_wit", "equals", S1("y"), FALSE, "show_and_require")>>,
                     TRUE, None, <<S1("y"), S1("n")>>) >>],
        [page_id |-> 2, fields |-> <<
            FieldDef("cr_age", "integer", NoDecimals, FALSE,
                     <<Dep("cr_wit", "not_empty", None, FALSE, "show")>>,
                     FALSE, None, <<>>) >>] >>,
     has_missing_marker |-> FALSE,
     missing_marker |-> None,
     required_fields |-> <<"cr_wit">>,
     minimum_completion_percent_x100 |-> 0]

PcoSchema ==
    [pages |-> <<
        [page_id |-> 1, fields |-> <<
            FieldDef("cr_cmprt1", "float", 1, TRUE, <<>>,
                     FALSE, None, <<>>) >>],
        [page_id |-> 2, fields |-> <<
            FieldDef("cr_duration", "integer", NoDecimals, TRUE,
                     <<Dep("cr_cmprt1", "in", <<S1("x")>>, TRUE, "hide")>>,
                     TRUE, S1("."), <<>>) >>] >>,
     has_missing_marker |-> TRUE,
     missing_marker |-> S1("."),
     required_fields |-> <<"cr_cmprt1">>,
     minimum_completion_percent_x100 |-> 50]

TemplateIds == {"master", "pco"}

\* a field id no schema declares
UnknownField == "cr_unknown"

-----------------------------------------------------------------------------
(* SchemaService *)

load_schema(t) == IF t = "master" THEN MasterSchema ELSE PcoSchema

Range(s) == {s[i] : i \in 1..Len(s)}

\* _build_field_index: field_id -> field definition with its page_id
BuildFieldIndex(schema) ==
    LET pages == schema.pages
        ids == UNION {{f.field_id : f \in Range(pg.fields)} : pg \in Range(pages)}
    IN  [fid \in ids |->
            LET pg == CHOOSE q \in Range(pages) :
                          \E f \in Range(q.fields) : f.field_id = fid
                fd == CHOOSE f \in Range(pg.fields) : f.field_id = fid
            IN  [def |-> fd, page_id |-> pg.page_id]]

field_index == [t \in TemplateIds |-> BuildFieldIndex(load_schema(t))]

\* get_field(...) is not None
HasField(t, fid) == fid \in DOMAIN field_index[t]

\* get_field, for a field the index holds
get_field(t, fid) == field_index[t][fid].def

get_all_field_ids(t) == DOMAIN field_index[t]

HasPage(t, page_id) == \E pg \in Range(load_schema(t).pages) : pg.page_id = page_id

\* get_page, for a page the schema holds
get_page(t, page_id) ==
    CHOOSE pg \in Range(load_schema(t).pages) : pg.page_id = page_id

get_required_fields(t) == load_schema(t).required_fields

get_missing_marker(t) ==
    IF load_schema(t).has_missing_marker THEN load_schema(t).missing_marker
    ELSE S1(".")

is_cno_allowed(t, fid) ==
    IF HasField(t, fid) THEN get_field(t, fid).cno_allowed ELSE FALSE

get_cno_default(t, fid) ==
    IF HasField(t, fid) THEN get_field(t, fid).cno_default ELSE None

\* dict.get(key): the value, or None
Get(d, k) == IF k \in DOMAIN d THEN d[k] ELSE None

ConditionMet(dep, field_values) ==
    LET actual_value == Get(field_values, dep.field_id) IN
    IF dep.condition = "equals" THEN
        ~dep.value_is_list /\ actual_value = dep.value
    ELSE IF dep.condition = "not_equals" THEN
        dep.value_is_list \/ actual_value # dep.value
    ELSE IF dep.condition = "in" THEN
        dep.value_is_list /\ actual_value \in Range(dep.value_list)
    ELSE IF dep.condition = "not_empty" THEN
        actual_value # None /\ actual_value # <<>>
    ELSE FALSE

\* ApplyDep with a require rule that assigns is_required
ApplyDep_require_assigns(acc, action, condition_met) ==
    IF action = "show" THEN
        [acc EXCEPT !.should_show = condition_met]
    ELSE IF action = "hide" THEN
        [acc EXCEPT !.should_show = ~condition_met]
    ELSE IF action = "require" THEN
        [acc EXCEPT !.is_required = condition_met]
    ELSE IF action = "show_and_require" THEN
        [should_show |-> condition_met, is_required |-> condition_met]
    ELSE acc

\* the body of the loop of evaluate_dependencies, for one rule
ApplyDep(acc, action, condition_met) ==
    IF action = "show" THEN
        [acc EXCEPT !.should_show = condition_met]
    ELSE IF action = "hide" THEN
        [acc EXCEPT !.should_show = ~condition_met]
    ELSE IF action = "require" THEN
        IF condition_met THEN [acc EXCEPT !.is_required = TRUE] ELSE acc
    ELSE IF action = "show_and_require" THEN
        [should_show |-> condition_met, is_required |-> condition_met]
    ELSE acc

RECURSIVE FoldDeps(_, _, _)
FoldDeps(acc, dependencies, field_values) ==
    IF dependencies = <<>> THEN acc
    ELSE FoldDeps(ApplyDep(acc, Head(dependencies).action,
                           ConditionMet(Head(dependencies), field_values)),
                  Tail(dependencies), field_values)

\* evaluate_dependencies on a field's static flag and rule list
EvalRules(base_required, dependencies, field_values) ==
    IF dependencies = <<>> THEN
        [should_show |-> TRUE, is_required |-> base_required]
    ELSE FoldDeps([should_show |-> TRUE, is_required |-> base_required],
                  dependencies, field_values)

evaluate_dependencies(t, fid, field_values) ==
    IF ~HasField(t, fid) THEN
        [should_show |-> TRUE, is_required |-> FALSE]
    ELSE EvalRules(get_field(t, fid).required,
                   get_field(t, fid).dependencies, field_values)

-----------------------------------------------------------------------------
(* WizardService *)

NoTime == -1            \* a datetime field that is None

\* CanrocFieldValue without updated_at, which no operation reads
FieldValue(value, provenance, state, cno_reason) ==
    [value |-> value, provenance |-> provenance, state |-> state,
     cno_reason |-> cno_reason]

EmptyDict == [k \in {} |-> None]

\* d[k] = v on a dict
Put(d, k, v) == [x \in (DOMAIN d) \cup {k} |-> IF x = k THEN v ELSE d[x]]

\* dict.update(e)
Update(d, e) ==
    [x \in (DOMAIN d) \cup (DOMAIN e) |-> IF x \in DOMAIN e THEN e[x] ELSE d[x]]

FieldType(t, fid, default) ==
    IF HasField(t, fid) THEN get_field(t, fid).type ELSE default

Decimals(t, fid) ==
    IF HasField(t, fid) /\ get_field(t, fid).decimals # NoDecimals
    THEN get_field(t, fid).decimals ELSE 2

\* field_value and field_value.state in [FILLED, CNO]
IsFilled(field_values, fid) ==
    /\ fid \in DOMAIN field_values
    /\ field_values[fid].state \in {"filled", "cno"}

CurrentValues(field_values) ==
    [fid \in DOMAIN field_values |-> field_values[fid].value]

\* the status _update_page_status derives from its three counters
PageStatus(field_count, filled_count, required_count, required_filled_count) ==
    IF required_count > 0 /\ required_filled_count = required_count THEN
        IF filled_count = field_count THEN "complete" ELSE "partial"
    ELSE IF filled_count > 0 THEN "partial"
    ELSE "not_started"

\* the counting loop of _update_page_status; deps[i] is the pair
\* evaluate_dependencies returns for the i-th field of the page
CountPage(fields, deps, field_values) ==
    PageStatus(
        Len(fields),
        Cardinality({i \in 1..Len(fields) :
            deps[i].should_show /\ IsFilled(field_values, fields[i].field_id)}),
        Cardinality({i \in 1..Len(fields) :
            deps[i].should_show /\ deps[i].is_required}),
        Cardinality({i \in 1..Len(fields) :
            /\ deps[i].should_show /\ deps[i].is_required
            /\ IsFilled(field_values, fields[i].field_id)}))

update_page_status(ws, t, page_id) ==
    IF ~HasPage(t, page_id) THEN ws
    ELSE IF get_page(t, page_id).fields = <<>> THEN
        [ws EXCEPT !.page_statuses[page_id] = "complete"]
    ELSE [ws EXCEPT !.page_statuses[page_id] =
            CountPage(get_page(t, page_id).fields,
                      [i \in 1..Len(get_page(t, page_id).fields) |->
                          evaluate_dependencies(
                              t, get_page(t, page_id).fields[i].field_id,
                              CurrentValues(ws.field_values))],
                      ws.field_values)]

RECURSIVE UpdateAllPages(_, _, _)
UpdateAllPages(ws, t, pages) ==
    IF pages = <<>> THEN ws
    ELSE UpdateAllPages(update_page_status(ws, t, Head(pages).page_id),
                        t, Tail(pages))

\* completion_percent is the exact quotient num / den
Percent(num, den) == [num |-> num, den |-> den]

PercentGeq(p, n) == p.num >= n * p.den

\* OverallStatus that reports in_progress whenever the state is not complete
OverallStatus_never_not_started(t, missing_required, completion_percent, filled_fields) ==
    IF /\ missing_required = <<>>
       /\ PercentGeq(completion_percent,
                     load_schema(t).minimum_completion_percent_x100)
    THEN "complete"
    ELSE "in_progress"

\* the overall status _recompute_completion derives
OverallStatus(t, missing_required, completion_percent, filled_fields) ==
    IF /\ missing_required = <<>>
       /\ PercentGeq(completion_percent,
                     load_schema(t).minimum_completion_percent_x100)
    THEN "complete"
    ELSE IF filled_fields > 0 THEN "in_progress"
    ELSE "not_started"

RecomputeWith(ws, t, missing_required, completion_percent, filled_fields) ==
    [UpdateAllPages(ws, t, load_schema(t).pages) EXCEPT
        !.completion_percent = completion_percent,
        !.missing_required = missing_required,
        !.status = OverallStatus(t, missing_required, completion_percent,
                                 filled_fields)]

FilledFields(field_values) ==
    Cardinality({fid \in DOMAIN field_values :
                    field_values[fid].state \in {"filled", "cno"}})

MissingRequired(t, field_values) ==
    SelectSeq(get_required_fields(t), LAMBDA fid : ~IsFilled(field_values, fid))

recompute_completion(ws, t) ==
    RecomputeWith(
        ws, t,
        MissingRequired(t, ws.field_values),
        IF Cardinality(get_all_field_ids(t)) > 0
        THEN Percent(FilledFields(ws.field_values) * 100,
                     Cardinality(get_all_field_ids(t)))
        ELSE Percent(0, 1),
        FilledFields(ws.field_values))

Stored(norm, provenance, cno_reason) ==
    FieldValue(norm.value, provenance, norm.state, cno_reason)

\* the CanrocFieldValue upsert_field builds
NewFieldValue(t, field_id, value, provenance, cno_reason) ==
    IF provenance = "cannot_obtain" THEN
        FieldValue(IF get_cno_default(t, field_id) \notin {None, <<>>}
                   THEN get_cno_default(t, field_id) ELSE S1("."),
                   provenance, "cno", cno_reason)
    ELSE Stored(NormalizeValue(value, FieldType(t, field_id, "text"),
                               Decimals(t, field_id)),
                provenance, cno_reason)

\* upsert_field recomputing the status of every page
upsert_field_all_pages(ws, t, field_id, value, provenance, cno_reason, time) ==
    UpdateAllPages(
        [ws EXCEPT !.field_values =
                      Put(@, field_id,
                          NewFieldValue(t, field_id, value, provenance,
                                        cno_reason)),
                   !.last_saved_at = time],
        t, load_schema(t).pages)

upsert_field(ws, t, field_id, value, provenance, cno_reason, time) ==
    IF HasField(t, field_id) THEN
        update_page_status(
            [ws EXCEPT !.field_values =
                          Put(@, field_id,
                              NewFieldValue(t, field_id, value, provenance,
                                            cno_reason)),
                       !.last_saved_at = time],
            t, field_index[t][field_id].page_id)
    ELSE [ws EXCEPT !.field_values =
                       Put(@, field_id,
                           NewFieldValue(t, field_id, value, provenance,
                                         cno_reason)),
                    !.last_saved_at = time]

\* mark_field_cno that only checks that the schema declares the field
mark_field_cno_any_declared(ws, t, field_id, reason, time) ==
    IF ~HasField(t, field_id) THEN [ok |-> FALSE, ws |-> ws]
    ELSE [ok |-> TRUE,
          ws |-> upsert_field(ws, t, field_id, None, "cannot_obtain", reason, time)]

\* mark_field_cno returns None exactly when ok is FALSE
mark_field_cno(ws, t, field_id, reason, time) ==
    IF ~is_cno_allowed(t, field_id) THEN [ok |-> FALSE, ws |-> ws]
    ELSE [ok |-> TRUE,
          ws |-> upsert_field(ws, t, field_id, None, "cannot_obtain", reason, time)]

clear_field_cno(ws, t, field_id, time) ==
    upsert_field(ws, t, field_id, None, "wizard_manual", None, time)

IsBlank(value) ==
    value = None \/ Strip(value) = <<>> \/ Strip(value) = S1(".")

Err(kind, field_id) == [kind |-> kind, field_id |-> field_id]

\* SavePageField that validates and stores hidden fields like shown ones
SavePageField_hidden_not_skipped(acc, t, field, value, dep, time) ==
    IF /\ dep.is_required
       /\ IsBlank(value)
       /\ ~(/\ field.field_id \in DOMAIN acc.ws.field_values
            /\ acc.ws.field_values[field.field_id].state = "cno")
    THEN [acc EXCEPT !.errors = Append(@, Err("required", field.field_id))]
    ELSE IF /\ ~IsBlank(value)
            /\ field.type = "choice"
            /\ value \notin (Range(field.choices) \cup {S1(".")})
    THEN [acc EXCEPT !.errors = Append(@, Err("invalid", field.field_id))]
    ELSE IF value # None THEN
        [acc EXCEPT !.ws = upsert_field(acc.ws, t, field.field_id, value,
                                        "wizard_manual", None, time),
                    !.upserted = @ \cup {field.field_id}]
    ELSE acc

\* SavePageField that stores nothing once a field of the page has failed
SavePageField_stop_on_error(acc, t, field, value, dep, time) ==
    IF ~dep.should_show \/ acc.errors # <<>> THEN acc
    ELSE IF /\ dep.is_required
            /\ IsBlank(value)
            /\ ~(/\ field.field_id \in DOMAIN acc.ws.field_values
                 /\ acc.ws.field_values[field.field_id].state = "cno")
    THEN [acc EXCEPT !.errors = Append(@, Err("required", field.field_id))]
    ELSE IF /\ ~IsBlank(value)
            /\ field.type = "choice"
            /\ value \notin (Range(field.choices) \cup {S1(".")})
    THEN [acc EXCEPT !.errors = Append(@, Err("invalid", field.field_id))]
    ELSE IF value # None THEN
        [acc EXCEPT !.ws = upsert_field(acc.ws, t, field.field_id, value,
                                        "wizard_manual", None, time),
                    !.upserted = @ \cup {field.field_id}]
    ELSE acc

\* one iteration of the loop of save_page; dep is the pair
\* evaluate_dependencies returns for the field
SavePageField(acc, t, field, value, dep, time) ==
    IF ~dep.should_show THEN acc
    ELSE IF /\ dep.is_required
            /\ IsBlank(value)
            /\ ~(/\ field.field_id \in DOMAIN acc.ws.field_values
                 /\ acc.ws.field_values[field.field_id].state = "cno")
    THEN [acc EXCEPT !.errors = Append(@, Err("required", field.field_id))]
    ELSE IF /\ ~IsBlank(value)
            /\ field.type = "choice"
            /\ value \notin (Range(field.choices) \cup {S1(".")})
    THEN [acc EXCEPT !.errors = Append(@, Err("invalid", field.field_id))]
    ELSE IF value # None THEN
        [acc EXCEPT !.ws = upsert_field(acc.ws, t, field.field_id, value,
                                        "wizard_manual", None, time),
                    !.upserted = @ \cup {field.field_id}]
    ELSE acc

RECURSIVE SavePageLoop(_, _, _, _, _, _)
SavePageLoop(acc, t, fields, field_values, current_values, time) ==
    IF fields = <<>> THEN acc
    ELSE SavePageLoop(
            SavePageField(acc, t, Head(fields),
                          Get(field_values, Head(fields).field_id),
                          evaluate_dependencies(t, Head(fields).field_id,
                                                current_values),
                          time),
            t, Tail(fields), field_values, current_values, time)

SavePageDone(done, t, page_id) ==
    [done EXCEPT !.ws = recompute_completion(
                            [done.ws EXCEPT !.current_page = page_id], t)]

\* errors: the list save_page returns; upserted: the fields it passed to
\* upsert_field
save_page(ws, t, page_id, field_values, time) ==
    IF ~HasPage(t, page_id) THEN
        [ws |-> ws, errors |-> <<Err("page_not_found", "")>>, upserted |-> {}]
    ELSE SavePageDone(
            SavePageLoop([ws |-> ws, errors |-> <<>>, upserted |-> {}],
                         t, get_page(t, page_id).fields, field_values,
                         Update(CurrentValues(ws.field_values), field_values),
                         time),
            t, page_id)

\* CompleteWith that fills the gaps before it reports the missing fields
CompleteWith_fill_first(ws, t, missing, time) ==
    [ok |-> missing = <<>>,
     errors |-> [i \in 1..Len(missing) |-> Err("not_filled", missing[i])],
     ws |-> [ws EXCEPT
        !.field_values =
            [fid \in (DOMAIN ws.field_values) \cup get_all_field_ids(t) |->
                IF fid \in DOMAIN ws.field_values THEN ws.field_values[fid]
                ELSE FieldValue(get_missing_marker(t), "missing_marker",
                                "normalized", None)],
        !.status = IF missing = <<>> THEN "complete" ELSE @,
        !.completed_at = IF missing = <<>> THEN time ELSE @,
        !.last_saved_at = IF missing = <<>> THEN time ELSE @,
        !.completion_percent = IF missing = <<>> THEN Percent(100, 1) ELSE @]]

\* CompleteWith that fills only the gaps among the required fields
CompleteWith_required_only(ws, t, missing, time) ==
    IF missing # <<>> THEN
        [ok |-> FALSE,
         errors |-> [i \in 1..Len(missing) |-> Err("not_filled", missing[i])],
         ws |-> ws]
    ELSE
        [ok |-> TRUE, errors |-> <<>>,
         ws |-> [ws EXCEPT
            !.field_values =
                [fid \in (DOMAIN ws.field_values)
                            \cup Range(get_required_fields(t)) |->
                    IF fid \in DOMAIN ws.field_values THEN ws.field_values[fid]
                    ELSE FieldValue(get_missing_marker(t), "missing_marker",
                                    "normalized", None)],
            !.status = "complete",
            !.completed_at = time,
            !.last_saved_at = time,
            !.completion_percent = Percent(100, 1)]]

CompleteWith(ws, t, missing, time) ==
    IF missing # <<>> THEN
        [ok |-> FALSE,
         errors |-> [i \in 1..Len(missing) |-> Err("not_filled", missing[i])],
         ws |-> ws]
    ELSE
        [ok |-> TRUE, errors |-> <<>>,
         ws |-> [ws EXCEPT
            !.field_values =
                [fid \in (DOMAIN ws.field_values) \cup get_all_field_ids(t) |->
                    IF fid \in DOMAIN ws.field_values THEN ws.field_values[fid]
                    ELSE FieldValue(get_missing_marker(t), "missing_marker",
                                    "normalized", None)],
            !.status = "complete",
            !.completed_at = time,
            !.last_saved_at = time,
            !.completion_percent = Percent(100, 1)]]

complete_wizard(ws, t, time) ==
    CompleteWith(ws, t, MissingRequired(t, ws.field_values), time)

\* export_to_payload without the normalized blanks
export_to_payload_values_only(ws) ==
    [fid \in {f \in DOMAIN ws.field_values :
                 ws.field_values[f].state \in {"filled", "cno"}}
        |-> ws.field_values[fid].value]

export_to_payload(ws) ==
    [fid \in {f \in DOMAIN ws.field_values :
                 ws.field_values[f].state \in {"filled", "cno", "normalized"}}
        |-> ws.field_values[fid].value]

\* the keys of metrics_map the schemas of the model declare
MetricKeys == {"cr_cmprt1", "cr_duration"}

NoMetrics == EmptyDict      \* session.metrics is None

\* _autofill_from_payloads and _autofill_from_metrics: the values stored
\* for the given keys of the source
Autofill(t, source, keys, default_type) ==
    [fid \in keys |->
        Stored(NormalizeValue(source[fid], FieldType(t, fid, default_type),
                              Decimals(t, fid)),
               "zip_autofill", None)]

\* AutofillAll with session metrics overriding the payload
AutofillAll_metrics_win(t, from_payload, metrics) ==
    IF t = "pco" /\ metrics # NoMetrics THEN
        Update(from_payload,
               Autofill("pco", metrics,
                        {k \in DOMAIN metrics : metrics[k] # None}, "float"))
    ELSE from_payload

AutofillAll(t, from_payload, metrics) ==
    IF t = "pco" /\ metrics # NoMetrics THEN
        Update(from_payload,
               Autofill("pco", metrics,
                        {k \in DOMAIN metrics :
                            metrics[k] # None /\ k \notin DOMAIN from_payload},
                        "float"))
    ELSE from_payload

initialize_wizard(t, payload, metrics, time) ==
    recompute_completion(
        [current_page |-> 1,
         total_pages |-> Len(load_schema(t).pages),
         status |-> "in_progress",
         page_statuses |->
            [p \in {pg.page_id : pg \in Range(load_schema(t).pages)} |->
                "not_started"],
         started_at |-> time,
         completed_at |-> NoTime,
         last_saved_at |-> time,
         completion_percent |-> Percent(0, 1),
         field_values |->
            AutofillAll(t,
                        Autofill(t, payload,
                                 {k \in DOMAIN payload : payload[k] # None},
                                 "text"),
                        metrics),
         missing_required |-> <<>>],
        t)

-----------------------------------------------------------------------------
(* Inputs *)

MaxPayload == 1         \* entries of an autofill payload

\* values a caller sends for a field
Values(t) ==
    IF t = "master" THEN {None, <<>>, S1("y"), S1("x")}
    ELSE {None, <<>>, S1("7"), S1("x")}

\* values a caller sends to upsert_field; clear_field_cno sends None
UpsertValues(t) == Values(t) \ {None}

\* values of an autofill payload
PayloadValues(t) ==
    IF t = "master" THEN {None, <<>>, S1("y")}
    ELSE {None, S2(" ", "7"), S3("7", ".", "5")}

\* keys of an autofill payload
PayloadIds(t) ==
    IF t = "master" THEN {"cr_wit", "cr_age", UnknownField}
    ELSE {"cr_cmprt1", "cr_duration", UnknownField}

FieldIds(t) == get_all_field_ids(t) \cup {UnknownField}

\* dicts with keys among ids and values among vals
Dicts(ids, vals) == UNION {[d -> vals] : d \in SUBSET ids}

Payloads(t) ==
    UNION {[d -> PayloadValues(t)] :
              d \in {e \in SUBSET PayloadIds(t) : Cardinality(e) <= MaxPayload}}

MetricsInputs(t) ==
    IF t = "pco"
    THEN {NoMetrics}
         \cup {[k \in MetricKeys |-> IF k \in d THEN S3("7", ".", "5") ELSE None] :
                  d \in {{"cr_cmprt1"}, MetricKeys}}
    ELSE {NoMetrics}

PageIds(t) == {pg.page_id : pg \in Range(load_schema(t).pages)}

PageFieldIds(t, p) == {f.field_id : f \in Range(get_page(t, p).fields)}

Reasons == {S1("r")}

\* the field_values dicts a caller sends to save_page, per template and page
SavePageInputs ==
    [t \in TemplateIds |->
        [p \in PageIds(t) |-> Dicts(PageFieldIds(t, p), Values(t))]]

-----------------------------------------------------------------------------
(* The wizard endpoints of app/routers/api.py, one call each *)

\* the other components are not called
IngestUnused == zip_in = <<>> /\ zip_out = <<>>

SessionUnused == SESSIONS = <<>> /\ artifact_file = <<>> /\ call = <<>>

JclsUnused == jcls_in = <<>> /\ jcls_out = <<>>

\* no service is active and no singleton was created
CtxUnused ==
    /\ _active_service_slug = None
    /\ changes = 0
    /\ _schema_service = 0
    /\ _wizard_service = 0
    /\ schema_services = <<>>
    /\ wizard_services = <<>>
    /\ handlers = <<>>
    /\ schema_read = <<>>

DepIdle == [base_required |-> FALSE, dependencies |-> <<>>,
            field_values |-> EmptyDict]

DepPending == [done |-> FALSE, should_show |-> FALSE, is_required |-> FALSE]

DepsUnused == dep_in = DepIdle /\ dep_out = DepPending

Init ==
    /\ template_id \in TemplateIds
    /\ now = 1
    /\ \E payload \in Payloads(template_id), metrics \in MetricsInputs(template_id) :
        /\ wizard_state = initialize_wizard(template_id, payload, metrics, 0)
        /\ last = [op |-> "initialize_wizard", payload |-> payload,
                   metrics |-> metrics]
    /\ dep_in = DepIdle
    /\ dep_out = DepPending
    /\ IngestUnused
    /\ SessionUnused
    /\ JclsUnused
    /\ CtxUnused

\* calls are made one after the other, each at a later instant
Later ==
    /\ now <= MaxCalls
    /\ now' = now + 1
    /\ UNCHANGED <<template_id, deps_vars, ingest_vars, session_vars, jcls_vars,
                   ctx_vars>>

UpsertField(field_id, value) ==
    /\ Later
    /\ wizard_state' = upsert_field(wizard_state, template_id, field_id, value,
                                    "wizard_manual", None, now)
    /\ last' = [op |-> "upsert_field", field_id |-> field_id]

MarkFieldCno(field_id, reason) ==
    /\ Later
    /\ \E r \in {mark_field_cno(wizard_state, template_id, field_id, reason, now)} :
        /\ wizard_state' = r.ws
        /\ last' = [op |-> "mark_field_cno", field_id |-> field_id, ok |-> r.ok]

ClearFieldCno(field_id) ==
    /\ Later
    /\ wizard_state' = clear_field_cno(wizard_state, template_id, field_id, now)
    /\ last' = [op |-> "clear_field_cno", field_id |-> field_id]

SavePage(page_id, field_values) ==
    /\ Later
    /\ \E r \in {save_page(wizard_state, template_id, page_id, field_values, now)} :
        /\ wizard_state' = r.ws
        /\ last' = [op |-> "save_page", page_id |-> page_id,
                    field_values |-> field_values, errors |-> r.errors,
                    upserted |-> r.upserted]

CompleteWizard ==
    /\ Later
    /\ \E r \in {complete_wizard(wizard_state, template_id, now)} :
        /\ wizard_state' = r.ws
        /\ last' = [op |-> "complete_wizard", ok |-> r.ok, errors |-> r.errors,
                    payload |-> IF r.ok THEN export_to_payload(r.ws)
                                ELSE EmptyDict]

Next ==
    \/ \E f \in FieldIds(template_id), v \in UpsertValues(template_id) :
          UpsertField(f, v)
    \/ \E f \in FieldIds(template_id), r \in Reasons : MarkFieldCno(f, r)
    \/ \E f \in FieldIds(template_id) : ClearFieldCno(f)
    \/ \E p \in PageIds(template_id) :
          \E fv \in SavePageInputs[template_id][p] :
              SavePage(p, fv)
    \/ CompleteWizard

Spec == Init /\ [][Next]_vars

-----------------------------------------------------------------------------
(* evaluate_dependencies as a function of a rule list and a snapshot *)

DepActions == {"show", "hide", "require", "show_and_require"}

\* rules on the one gating field cr_gate
DepRules ==
    {Dep("cr_gate", "equals", S1("y"), FALSE, a) : a \in DepActions}
    \cup {Dep("cr_gate", "not_equals", S1("y"), FALSE, a) : a \in DepActions}
    \cup {Dep("cr_gate", "in", <<S1("x")>>, TRUE, a) : a \in DepActions}
    \cup {Dep("cr_gate", "not_empty", None, FALSE, a) : a \in DepActions}

DepSnapshots ==
    {EmptyDict} \cup [{"cr_gate"} -> {<<>>, S1("y"), S1("x")}]

\* no wizard call is made: one WizardState, just initialised
WizardUnused ==
    /\ template_id = "master"
    /\ now = 1
    /\ wizard_state = initialize_wizard("master", EmptyDict, NoMetrics, 0)
    /\ last = [op |-> "initialize_wizard", payload |-> EmptyDict,
               metrics |-> NoMetrics]

DepsInit ==
    /\ WizardUnused
    /\ IngestUnused
    /\ SessionUnused
    /\ JclsUnused
    /\ CtxUnused
    /\ dep_in \in [base_required : BOOLEAN,
                   dependencies : UNION {[1..n -> DepRules] : n \in 0..MaxRules},
                   field_values : DepSnapshots]
    /\ dep_out = DepPending

EvaluateDependencies ==
    /\ ~dep_out.done
    /\ \E r \in {EvalRules(dep_in.base_required, dep_in.dependencies,
                           dep_in.field_values)} :
        dep_out' = [done |-> TRUE, should_show |-> r.should_show,
                    is_required |-> r.is_required]
    /\ UNCHANGED <<wizard_vars, dep_in, ingest_vars, session_vars, jcls_vars,
                   ctx_vars>>

DepsNext == EvaluateDependencies

DepsSpec == DepsInit /\ [][DepsNext]_vars

-----------------------------------------------------------------------------
(* ZOLL bundle ingestion (app/services/ingestion_service.py).             *)
(* File names and CSV cells are sequences of one-character strings; a     *)
(* parsed float is <<"float", m>> with m the value in thousandths, a      *)
(* value kept as text is <<"str", s>>.  Metric and payload keys are       *)
(* strings, f"{prefix}{n}" being prefix \o ToString(n).                   *)

MaxEntries == 3          \* entries in one bundle
MaxRows == 2             \* data rows in one per-interval file

Uppers == <<"A", "B", "C", "D", "E", "F", "G", "H", "I", "J", "K", "L", "M",
            "N", "O", "P", "Q", "R", "S", "T", "U", "V", "W", "X", "Y", "Z">>

Lowers == <<"a", "b", "c", "d", "e", "f", "g", "h", "i", "j", "k", "l", "m",
            "n", "o", "p", "q", "r", "s", "t", "u", "v", "w", "x", "y", "z">>

\* str.lower()
LowerChar(c) ==
    IF \E i \in 1..26 : Uppers[i] = c
    THEN Lowers[CHOOSE i \in 1..26 : Uppers[i] = c] ELSE c

Lower(s) == [i \in 1..Len(s) |-> LowerChar(s[i])]

\* sub in s
Contains(s, sub) ==
    \E i \in 0..(Len(s) - Len(sub)) : SubSeq(s, i + 1, i + Len(sub)) = sub

StartsWith(s, prefix) ==
    Len(s) >= Len(prefix) /\ SubSeq(s, 1, Len(prefix)) = prefix

\* f.split('/')[-1]
RECURSIVE Basename(_)
Basename(f) ==
    IF \E i \in 1..Len(f) : f[i] = "/"
    THEN Basename(SubSeq(f, (CHOOSE i \in 1..Len(f) : f[i] = "/") + 1, Len(f)))
    ELSE f

CanRocWord == <<"C", "a", "n", "R", "o", "c">>
canroc == <<"c", "a", "n", "r", "o", "c">>
DotCsv == <<".", "c", "s", "v">>
DotZip == <<".", "z", "i", "p">>

CaseStatisticsCsv ==
    <<"C", "a", "s", "e", " ", "S", "t", "a", "t", "i", "s", "t", "i", "c",
      "s">> \o DotCsv

MinuteByMinuteReportCsv ==
    <<"M", "i", "n", "u", "t", "e", "B", "y", "M", "i", "n", "u", "t", "e",
      "R", "e", "p", "o", "r", "t">> \o DotCsv

IndividualPausesCsv ==
    <<"I", "n", "d", "i", "v", "i", "d", "u", "a", "l", "P", "a", "u", "s",
      "e", "s">> \o DotCsv

CanRocMinuteByMinuteReportCsv == CanRocWord \o MinuteByMinuteReportCsv

CanRocCPRSegmentsReportCsv ==
    CanRocWord \o <<"C", "P", "R", "S", "e", "g", "m", "e", "n", "t", "s",
                    "R", "e", "p", "o", "r", "t">> \o DotCsv

REQUIRED_CSVS == <<MinuteByMinuteReportCsv, CaseStatisticsCsv>>

\* should_ignore_zip without the lower()
should_ignore_zip_case_sensitive(zip_name) == Contains(zip_name, canroc)

\* zip_name is zip_path.name
should_ignore_zip(zip_name) == Contains(Lower(zip_name), canroc)

\* _find_authoritative_csv taking any entry whose name ends with csv_name
RECURSIVE _find_authoritative_csv_from_suffix(_, _, _)
_find_authoritative_csv_from_suffix(file_list, csv_name, i) ==
    IF i > Len(file_list) THEN 0
    ELSE LET fname == Lower(Basename(file_list[i])) IN
        IF Len(fname) >= Len(csv_name)
           /\ SubSeq(fname, Len(fname) - Len(csv_name) + 1, Len(fname))
                  = Lower(csv_name)
        THEN i
        ELSE _find_authoritative_csv_from_suffix(file_list, csv_name, i + 1)

\* the index in file_list of the entry returned, or 0 for None
RECURSIVE _find_authoritative_csv_from(_, _, _)
_find_authoritative_csv_from(file_list, csv_name, i) ==
    IF i > Len(file_list) THEN 0
    ELSE LET fname == Lower(Basename(file_list[i])) IN
        IF fname = Lower(csv_name) /\ ~StartsWith(fname, canroc) THEN i
        ELSE _find_authoritative_csv_from(file_list, csv_name, i + 1)

_find_authoritative_csv(file_list, csv_name) ==
    _find_authoritative_csv_from(file_list, csv_name, 1)

RECURSIVE _find_canroc_csv_from(_, _, _)
_find_canroc_csv_from(file_list, csv_name, i) ==
    IF i > Len(file_list) THEN 0
    ELSE IF Lower(Basename(file_list[i])) = Lower(csv_name) THEN i
    ELSE _find_canroc_csv_from(file_list, csv_name, i + 1)

_find_canroc_csv(file_list, csv_name) ==
    _find_canroc_csv_from(file_list, csv_name, 1)

\* the message of the IngestionError raised, or "" when none is
_validate_required_csvs(file_list) ==
    IF _find_authoritative_csv(file_list, REQUIRED_CSVS[1]) = 0
    THEN "Required file 'MinuteByMinuteReport.csv' not found in ZIP"
    ELSE IF _find_authoritative_csv(file_list, REQUIRED_CSVS[2]) = 0
    THEN "Required file 'Case Statistics.csv' not found in ZIP"
    ELSE ""

(* Numbers.  float(s) of a cell gives its value in thousandths; the cells *)
(* of the model carry at most three fractional digits.                    *)

PyFloat(m) == <<"float", m>>
PyInt(n) == <<"int", n>>
PyStr(s) == <<"str", s>>

DigitVal(c) == CHOOSE n \in 0..9 : ToString(n) = c

RECURSIVE DigitsVal(_)
DigitsVal(s) ==
    IF s = <<>> THEN 0
    ELSE DigitsVal(SubSeq(s, 1, Len(s) - 1)) * 10 + DigitVal(s[Len(s)])

\* float(value) raises ValueError
FloatRaises(value) == ~IsFloatLiteral(Strip(value))

\* float(value) in thousandths
FloatOf(value) ==
    DigitsVal(IntDigits(Strip(value))) * 1000
        + DigitsVal(PadZeros(FracDigits(Strip(value)), 3))

\* the integer nearest to num / den, a tie going to the even one
RoundHalfEven(num, den) ==
    LET q == num \div den
        r == num % den
    IN  IF 2 * r < den THEN q
        ELSE IF 2 * r > den THEN q + 1
        ELSE IF q % 2 = 0 THEN q ELSE q + 1

Unit(decimals) == CASE decimals = 0 -> 1000 [] decimals = 1 -> 100
                    [] decimals = 2 -> 10

\* round(x, decimals) of the double nearest to m / 1000.  The doubles that
\* are a tie are the multiples of 1/8, which round half to even; the other
\* values round as their decimal expansion does unless that expansion is
\* itself a tie, which RoundIsExact excludes from the inputs.
Round(m, decimals) == RoundHalfEven(m, Unit(decimals)) * Unit(decimals)

RoundIsExact(m, decimals) ==
    (2 * (m % Unit(decimals)) = Unit(decimals)) => (m % 125 = 0)

_safe_round(value, decimals) ==
    IF value = None THEN None ELSE PyFloat(Round(value[2], decimals))

(* CSV text.  A decoded file is its header line, a sequence of column     *)
(* names, and its other lines, each a sequence of cells.                  *)

\* csv.DictReader: the data rows, an empty line being skipped
DictRows(csv_content) == SelectSeq(csv_content.lines, LAMBDA l : l # <<>>)

\* the row has a cell in column col
RowHas(header, line, col) ==
    \E i \in 1..Len(header) : header[i] = col /\ i <= Len(line)

\* row.get(col, ""), a missing cell reading as a blank one
RowGet(header, line, col) ==
    IF RowHas(header, line, col)
    THEN line[CHOOSE i \in 1..Len(header) : header[i] = col /\ i <= Len(line)]
    ELSE <<>>

IntervalWord == <<"I", "n", "t", "e", "r", "v", "a", "l">>

RECURSIVE LeadingDigits(_)
LeadingDigits(s) ==
    IF s # <<>> /\ Head(s) \in Digits
    THEN <<Head(s)>> \o LeadingDigits(Tail(s)) ELSE <<>>

\* re.match(r'Interval\s+(\d+)', s): int(group(1)), or -1 for no match
IntervalMatch(s) ==
    IF StartsWith(s, IntervalWord)
    THEN LET rest == SubSeq(s, Len(IntervalWord) + 1, Len(s)) IN
        IF rest # <<>> /\ Head(rest) = " " /\ LeadingDigits(LStrip(rest)) # <<>>
        THEN DigitsVal(LeadingDigits(LStrip(rest))) ELSE -1
    ELSE -1

MINUTE_REPORT_COLUMNS ==
    [interval |-> "Interval",
     seconds_analyzed |-> "Seconds Analyzed",
     seconds_without |-> "Seconds Without Compression",
     compression_rate |-> "Mean Compression Rate",
     compression_depth |-> "Mean Compression Depth (cms)",
     ccf |-> "Compression Fraction",
     etco2 |-> "Mean EtCO2",
     correct_depth_percent |-> "% Compressions in Target Depth",
     correct_rate_percent |-> "% Compressions in Target Rate"]

\* a numeric column of a row: None for a blank or unparsable cell
NumericCell(value) ==
    IF value = <<>> \/ FloatRaises(value) THEN None ELSE PyFloat(FloatOf(value))

_parse_minute_by_minute(csv_content) ==
    [row_num \in 1..Len(DictRows(csv_content)) |->
        LET line == DictRows(csv_content)[row_num]
            interval_str == RowGet(csv_content.header, line,
                                   MINUTE_REPORT_COLUMNS.interval)
        IN  [internal_name \in (DOMAIN MINUTE_REPORT_COLUMNS \ {"interval"})
                 |-> NumericCell(RowGet(csv_content.header, line,
                                        MINUTE_REPORT_COLUMNS[internal_name]))]
            @@ [interval_num |->
                    IF IntervalMatch(interval_str) >= 0
                    THEN IntervalMatch(interval_str) ELSE row_num,
                row_index |-> row_num - 1]]

PcoPrefixes == {"cr_cmprt", "cr_cprff", "cr_cdpth", "cr_etco2", "cr_secun"}

\* f"{prefix}{minute_num}"
SlotKey(prefix, minute_num) == prefix \o ToString(minute_num)

PcoSlots == PcoPrefixes \X (1..10)

PcoColumn == [cr_cmprt |-> "compression_rate", cr_cprff |-> "ccf",
              cr_cdpth |-> "compression_depth", cr_etco2 |-> "etco2",
              cr_secun |-> "seconds_without"]

PcoDecimals == [cr_cmprt |-> 1, cr_cprff |-> 1, cr_cdpth |-> 2,
                cr_etco2 |-> 1, cr_secun |-> 1]

\* minute n read from the n-th row, whatever its interval number
minute_lookup_by_position(minute_data, n) ==
    IF n <= Len(minute_data) THEN n ELSE 0

\* minute_lookup[n]: the index of the last row whose interval number is n,
\* or 0
minute_lookup(minute_data, n) ==
    LET hits == {i \in 1..Len(minute_data) :
                    /\ minute_data[i].interval_num = n
                    /\ 1 <= minute_data[i].interval_num
                    /\ minute_data[i].interval_num <= 10}
    IN  IF hits = {} THEN 0 ELSE CHOOSE i \in hits : \A j \in hits : j <= i

_compute_pco_metrics_weighted(minute_data) ==
    [key \in {SlotKey(sl[1], sl[2]) : sl \in PcoSlots} |->
        LET sl == CHOOSE t \in PcoSlots : SlotKey(t[1], t[2]) = key
            i == minute_lookup(minute_data, sl[2])
        IN  IF i = 0 THEN None
            ELSE _safe_round(minute_data[i][PcoColumn[sl[1]]],
                             PcoDecimals[sl[1]])]

_build_pco_payload(pco_metrics) ==
    [key \in {k \in DOMAIN pco_metrics : pco_metrics[k] # None} |->
        pco_metrics[key]]

CASE_STATS_COLUMNS ==
    [correct_depth_percent |-> "% in Target Depth manual",
     correct_rate_percent |-> "% in Target Rate manual",
     compression_rate |-> "Mean Compression Rate",
     compression_depth |-> "Mean Compression Depth (cms)",
     duration |-> "Total CPR Period Duration",
     compression_fraction |-> "CCF All % in CPR time",
     seconds_to_first_compression |-> "Seconds to First Compression",
     seconds_to_first_shock |-> "Seconds to First Shock",
     avg_post_shock_pause |-> "Average length of post-shock pause (sec)",
     total_pause_duration |-> "Total Pause Period Duration",
     manual_cpr_duration |-> "Manual CPR Period Duration (sec)",
     manual_pause_duration |-> "Manual Pause Period Duration (sec)",
     total_compressions |-> "Total Number of Compressions",
     total_compressions_manual |-> "Total Number of Compressions manual",
     percent_not_in_cpr |-> "% of time Not in CPR",
     compressions_in_target_depth |-> "Compressions in Target Depth manual",
     compressions_below_target_depth |->
         "Compressions Below Target Depth manual",
     compressions_above_target_depth |->
         "Compressions Above Target Depth manual",
     depth_std_dev |-> "Standard Deviation Depth manual (cms)",
     compressions_in_target_rate |-> "Compressions in Target Rate manual",
     compressions_below_target_rate |-> "Compressions Below Target Rate manual",
     compressions_above_target_rate |-> "Compressions Above Target Rate manual",
     rate_std_dev |-> "Standard Deviation Rate manual",
     compressions_in_target_percent |-> "Compressions in target % manual",
     mean_release_velocity |-> "Mean Release Velocity manual",
     release_velocity_std_dev |->
         "Standard Deviation Release Velocity manual",
     mean_etco2 |-> "Mean EtCO2",
     max_etco2 |-> "Maximum EtCO2",
     target_depth_setting |-> "Target Setting Compression Depth (cms)",
     target_rate_setting |-> "Target Setting Compression Rate",
     target_quality_percent |->
         "Target Setting Compression Quality Percentage",
     target_ccf_percent |-> "Target Setting Cpr Fraction Percentage",
     tags |-> "Tag(s)"]

\* the names for which endswith("_percent") or startswith("percent_") holds
PercentNames ==
    {"correct_depth_percent", "correct_rate_percent",
     "compressions_in_target_percent", "target_quality_percent",
     "target_ccf_percent", "percent_not_in_cpr"}

\* the rounding of a summary column: 2 decimals, 1 decimal, an integer count
CaseStatsDecimals(internal_name) ==
    IF internal_name \in {"compression_depth", "depth_std_dev"} THEN 2
    ELSE IF internal_name \in PercentNames THEN 1
    ELSE IF internal_name \in
        {"total_compressions", "total_compressions_manual",
         "compressions_in_target_depth", "compressions_below_target_depth",
         "compressions_above_target_depth", "compressions_in_target_rate",
         "compressions_below_target_rate", "compressions_above_target_rate"}
    THEN 0
    ELSE 1

\* the metrics of the first data row; the caller checks that there is one
_parse_case_statistics(csv_content) ==
    [internal_name \in DOMAIN CASE_STATS_COLUMNS |->
        LET value == RowGet(csv_content.header, DictRows(csv_content)[1],
                            CASE_STATS_COLUMNS[internal_name])
        IN  IF value = <<>> THEN None
            ELSE IF FloatRaises(value) THEN PyStr(Strip(value))
            ELSE IF CaseStatsDecimals(internal_name) = 0
            THEN PyInt(Round(FloatOf(value), 0) \div 1000)
            ELSE PyFloat(Round(FloatOf(value),
                             CaseStatsDecimals(internal_name)))]

NoPauses == [pause_count |-> None, mean_pause_duration |-> None,
             max_pause_duration |-> None, pauses_over_10s |-> None]

TotalPauseDuration == "Total pause duration (sec)"

RECURSIVE SumSeq(_)
SumSeq(s) == IF s = <<>> THEN 0 ELSE Head(s) + SumSeq(Tail(s))

\* the durations of the first n rows, in thousandths
RECURSIVE PauseDurations(_, _, _)
PauseDurations(header, rows, n) ==
    IF n = 0 THEN <<>>
    ELSE LET raw == Strip(RowGet(header, rows[n], TotalPauseDuration)) IN
        IF raw = <<>> \/ FloatRaises(raw)
        THEN PauseDurations(header, rows, n - 1)
        ELSE Append(PauseDurations(header, rows, n - 1), FloatOf(raw))

_parse_individual_pauses(content) ==
    LET rows == DictRows(content)
        durations == PauseDurations(content.header, rows, Len(rows))
    IN  IF \E n \in 1..Len(rows) :
                ~RowHas(content.header, rows[n], TotalPauseDuration)
        THEN NoPauses
        ELSE IF durations = <<>> THEN NoPauses
        ELSE [pause_count |-> PyInt(Len(durations)),
              mean_pause_duration |->
                  PyFloat(RoundHalfEven(SumSeq(durations),
                                      Len(durations) * 10) * 10),
              max_pause_duration |->
                  PyFloat(Round(CHOOSE d \in Range(durations) :
                                  \A e \in Range(durations) : e <= d, 2)),
              pauses_over_10s |->
                  PyInt(Cardinality({i \in 1..Len(durations) :
                                      durations[i] > 10000}))]

\* the slot a CanROC column is stored under: field_mapping
CanrocSlotPrefix == [cr_dpth |-> "cr_cdpth", cr_cmprt |-> "cr_cmprt",
                     cr_etco2 |-> "cr_etco2", cr_secun |-> "cr_secun",
                     cr_crpff |-> "cr_cprff"]

\* the fields one data line contributes
CanrocLineFields(headers, values) ==
    LET interval_num == IntervalMatch(IF values = <<>> THEN <<>> ELSE values[1])
        cols == {col_idx \in 2..Len(headers) :
                    /\ col_idx <= Len(values)
                    /\ headers[col_idx] \in DOMAIN CanrocSlotPrefix
                    /\ Strip(values[col_idx]) # <<>>
                    /\ ~FloatRaises(Strip(values[col_idx]))}
    IN  IF interval_num < 0 \/ interval_num > 10 THEN EmptyDict
        ELSE [key \in {SlotKey(CanrocSlotPrefix[headers[c]], interval_num) :
                          c \in cols} |->
                LET c == CHOOSE b \in cols :
                        /\ SlotKey(CanrocSlotPrefix[headers[b]], interval_num) = key
                        /\ \A d \in cols :
                            SlotKey(CanrocSlotPrefix[headers[d]], interval_num) = key
                                => d <= b
                IN  PyFloat(Round(FloatOf(Strip(values[c])), 2))]

\* the file's lines are the header line, then csv_content.lines; the data
\* lines are those from the third on
RECURSIVE CanrocMinuteFields(_, _)
CanrocMinuteFields(csv_content, n) ==
    IF n < 2 THEN EmptyDict
    ELSE Update(CanrocMinuteFields(csv_content, n - 1),
                CanrocLineFields(csv_content.header, csv_content.lines[n]))

_parse_canroc_minute_by_minute(csv_content) ==
    IF 1 + Len(csv_content.lines) < 3 THEN EmptyDict
    ELSE CanrocMinuteFields(csv_content, Len(csv_content.lines))

SegmentCsvFields == <<"cr_ecstrttm", "cr_esctoptm", "cr_rsnstp", "cr_rsnkshk">>
SegmentPcoFields == <<"cr_ecstrttm", "cr_esctoptm", "cr_rsnstp", "cr_rsnshk">>

\* the stripped cell under header csv_field, or "" when there is none
SegmentCell(headers, values, csv_field) ==
    IF csv_field \in Range(headers)
       /\ (CHOOSE i \in 1..Len(headers) :
               headers[i] = csv_field /\ \A j \in 1..(i - 1) : headers[j] # csv_field)
           <= Len(values)
    THEN Strip(values[CHOOSE i \in 1..Len(headers) :
               headers[i] = csv_field /\ \A j \in 1..(i - 1) : headers[j] # csv_field])
    ELSE <<>>

\* segment_data of one segment
SegmentData(headers, data_values, reason_values, seg_num) ==
    LET filled == {k \in 1..4 :
            SegmentCell(headers, data_values,
                        SlotKey(SegmentCsvFields[k], seg_num)) # <<>>}
        reason == SegmentCell(headers, reason_values,
                              SlotKey(SegmentCsvFields[3], seg_num))
        fields == [key \in {SlotKey(SegmentPcoFields[k], seg_num) : k \in filled} |->
            PyStr(SegmentCell(headers, data_values,
                 SlotKey(SegmentCsvFields[
                     CHOOSE k \in filled :
                         SlotKey(SegmentPcoFields[k], seg_num) = key], seg_num)))]
    IN  IF reason # <<>>
        THEN Put(fields, SlotKey("cr_rsnstp", seg_num) \o "_text", PyStr(reason))
        ELSE fields

\* result after the segments 1..seg_num
RECURSIVE SegmentsUpTo(_, _, _, _)
SegmentsUpTo(headers, data_values, reason_values, seg_num) ==
    IF seg_num = 0 THEN [fields |-> EmptyDict, segments |-> <<>>]
    ELSE LET before == SegmentsUpTo(headers, data_values, reason_values,
                                    seg_num - 1)
             segment_data == SegmentData(headers, data_values, reason_values,
                                         seg_num)
         IN  [fields |-> Update(before.fields, segment_data),
              segments |->
                  IF SlotKey("cr_ecstrttm", seg_num) \in DOMAIN segment_data
                  THEN Append(before.segments, segment_data)
                  ELSE before.segments]

_parse_canroc_segments(csv_content) ==
    IF 1 + Len(csv_content.lines) < 3 THEN EmptyDict
    ELSE LET r == SegmentsUpTo(csv_content.header, csv_content.lines[2],
                               IF Len(csv_content.lines) > 2
                               THEN csv_content.lines[3] ELSE <<>>, 26)
         IN  Update(r.fields, [segment_count |-> PyInt(Len(r.segments)),
                               segments |-> r.segments])

\* the segment fields added to the payload: segments 1..6
SegmentPayload(canroc_segment_data) ==
    [field \in {f \in DOMAIN canroc_segment_data :
                   \E seg_num \in 1..6, k \in 1..4 :
                       f = SlotKey(SegmentPcoFields[k], seg_num)} |->
        canroc_segment_data[field]]

\* ingest_zip raising IngestionError(message) with the archive opened or
\* not and the entries of `read` read
IngestRaise(message, opened, read) ==
    [ok |-> FALSE, error |-> message, metrics_dict |-> None,
     pco_payload |-> None, opened |-> opened, read |-> read]

IngestPaths(bundle) == [i \in 1..Len(bundle.entries) |-> bundle.entries[i].path]

\* the part of ingest_zip after the two required files are parsed
IngestOptional(bundle, file_list, summary_metrics, minute_data, read) ==
    LET pco_metrics == _compute_pco_metrics_weighted(minute_data)
        pauses == _find_authoritative_csv(file_list, IndividualPausesCsv)
        cm == _find_canroc_csv(file_list, CanRocMinuteByMinuteReportCsv)
        cs == _find_canroc_csv(file_list, CanRocCPRSegmentsReportCsv)
        opt == {pauses, cm, cs} \ {0}
        pause_metrics == IF pauses = 0 THEN NoPauses
                         ELSE _parse_individual_pauses(bundle.entries[pauses])
        canroc_minute_data ==
            IF cm = 0 THEN EmptyDict
            ELSE _parse_canroc_minute_by_minute(bundle.entries[cm])
        canroc_segment_data ==
            IF cs = 0 THEN EmptyDict
            ELSE _parse_canroc_segments(bundle.entries[cs])
        metrics_dict == Update(Update(summary_metrics, pco_metrics),
                               pause_metrics)
    IN  IF pauses # 0 /\ ~bundle.entries[pauses].decodable
        THEN IngestRaise("Error decoding CSV content", TRUE,
                         read \cup {pauses})
        ELSE IF cm # 0 /\ ~bundle.entries[cm].decodable
        THEN IngestRaise("Error decoding CSV content", TRUE,
                         read \cup ({pauses, cm} \ {0}))
        ELSE IF cs # 0 /\ ~bundle.entries[cs].decodable
        THEN IngestRaise("Error decoding CSV content", TRUE, read \cup opt)
        ELSE [ok |-> TRUE, error |-> "",
              metrics_dict |->
                  IF canroc_segment_data # EmptyDict
                  THEN Put(metrics_dict, "canroc_segments", canroc_segment_data)
                  ELSE metrics_dict,
              pco_payload |->
                  Update(Update(_build_pco_payload(pco_metrics),
                                canroc_minute_data),
                         SegmentPayload(canroc_segment_data)),
              opened |-> TRUE, read |-> read \cup opt]

ingest_zip(bundle) ==
    LET file_list == IngestPaths(bundle)
        case_stats == _find_authoritative_csv(file_list, CaseStatisticsCsv)
        minute_csv == _find_authoritative_csv(file_list, MinuteByMinuteReportCsv)
    IN  IF ~bundle.exists THEN IngestRaise("ZIP file not found", FALSE, {})
        ELSE IF should_ignore_zip(bundle.name)
        THEN IngestRaise("ZIP file ignored: contains 'CanRoc' in filename",
                         FALSE, {})
        ELSE IF ~bundle.is_zip
        THEN IngestRaise("Invalid ZIP file format", TRUE, {})
        ELSE IF _validate_required_csvs(file_list) # ""
        THEN IngestRaise(_validate_required_csvs(file_list), TRUE, {})
        ELSE IF ~bundle.entries[case_stats].decodable
        THEN IngestRaise("Error decoding CSV content", TRUE, {case_stats})
        ELSE IF DictRows(bundle.entries[case_stats]) = <<>>
        THEN IngestRaise("No data row found in Case Statistics.csv", TRUE,
                         {case_stats})
        ELSE IF ~bundle.entries[minute_csv].decodable
        THEN IngestRaise("Error decoding CSV content", TRUE,
                         {case_stats, minute_csv})
        ELSE IF DictRows(bundle.entries[minute_csv]) = <<>>
        THEN IngestRaise("No data rows found in MinuteByMinuteReport.csv",
                         TRUE, {case_stats, minute_csv})
        ELSE IngestOptional(bundle, file_list,
                 _parse_case_statistics(bundle.entries[case_stats]),
                 _parse_minute_by_minute(bundle.entries[minute_csv]),
                 {case_stats, minute_csv})

(* Bundles ingested.  One family varies the file name, the archive and    *)
(* the order and naming of its entries; the other keeps the entries and   *)
(* varies the rows of the two per-interval files.                         *)

MaxCanrocRows == 1       \* data rows in one pre-formatted per-minute file

c110 == <<"1", "1", "0">>
c99_25 == <<"9", "9", ".", "2", "5">>
c5_125 == <<"5", ".", "1", "2", "5">>
c30_75 == <<"3", "0", ".", "7", "5">>
cNA == <<"n", "/", "a">>

DigitChars(n) ==
    IF n < 10 THEN <<ToString(n)>> ELSE <<ToString(n \div 10), ToString(n % 10)>>

\* "Interval N (...)"
IntervalLabel(n) == IntervalWord \o <<" ">> \o DigitChars(n) \o <<" ", "(", ")">>

MinuteHeader ==
    <<"Interval", "Mean Compression Rate", "Mean Compression Depth (cms)",
      "Compression Fraction", "Mean EtCO2", "Seconds Without Compression">>

\* a row: its label, then rate, depth, fraction, EtCO2, seconds without
\* compression
LineA(n) == <<IntervalLabel(n), c110, c5_125, <<"8", "8">>, <<"3", "5">>, <<"4">>>>
LineB(n) == <<IntervalLabel(n), c99_25, cNA, <<>>, c30_75, <<"0">>>>

\* the last row has a label without a number
MinuteLines ==
    {LineA(0), LineA(1), LineB(1), LineA(2), LineB(11),
     <<<<"-">>, c99_25, cNA, <<>>, c30_75, <<"0">>>>}

CanrocHeader ==
    <<"Interval", "cr_dpth", "cr_cmprt", "cr_etco2", "cr_secun", "cr_crpff">>

CanrocDescriptions == <<<<"I">>, <<"D">>, <<"R">>, <<"E">>, <<"S">>, <<"F">>>>

CanrocLines ==
    {<<IntervalLabel(n), <<"4", ".", "5">>, <<"1", "0", "1">>, <<>>,
       <<"7">>, <<"9", "0">>>> : n \in {0, 1, 11}}

SummaryHeader ==
    <<"% in Target Depth manual", "Mean Compression Depth (cms)",
      "Total Number of Compressions", "Seconds to First Shock",
      "Target Setting Compression Depth (cms)">>

SummaryLine ==
    <<<<"7", "3">>, <<"5", ".", "3", "7", "5">>, <<"1", "2", ".", "5">>, <<>>,
      <<"5", " ", "t", "o", " ", "6">>>>

Entry(path, decodable, header, lines) ==
    [path |-> path, decodable |-> decodable, header |-> header, lines |-> lines]

Dir == <<"d", "/">>

CaseStatisticsEntry == Entry(CaseStatisticsCsv, TRUE, SummaryHeader, <<SummaryLine>>)

MinuteEntry(lines) == Entry(MinuteByMinuteReportCsv, TRUE, MinuteHeader, lines)

CanrocMinuteEntry(lines) ==
    Entry(CanRocMinuteByMinuteReportCsv, TRUE, CanrocHeader,
          <<CanrocDescriptions>> \o lines)

PausesEntry ==
    Entry(IndividualPausesCsv, TRUE, <<"Pause", TotalPauseDuration>>,
          <<<<<<"1">>, <<"4">>>>, <<<<"2">>, <<"1", "2", ".", "5">>>>,
            <<<<"3">>, cNA>>>>)

SegmentsEntry ==
    Entry(Dir \o CanRocCPRSegmentsReportCsv, TRUE,
          <<"cr_ecstrttm1", "cr_rsnstp1", "cr_rsnkshk1", "cr_ecstrttm7">>,
          <<<<<<"S">>, <<"R">>, <<"K">>, <<"S">>>>,
            <<<<"0", "9", ":", "0", "0">>, <<"2">>, <<"3">>,
              <<"0", "9", ":", "3", "0">>>>,
            <<<<>>, <<"r">>>>>>)

\* the entries a bundle of the first family is made of
EntryChoices ==
    {CaseStatisticsEntry,
     Entry(Dir \o Lower(CaseStatisticsCsv), FALSE, SummaryHeader,
           <<SummaryLine>>),
     MinuteEntry(<<LineA(1)>>),
     Entry(Dir \o Dir \o Lower(MinuteByMinuteReportCsv), TRUE, MinuteHeader,
           <<LineA(2)>>),
     Entry(CanRocMinuteByMinuteReportCsv, TRUE, MinuteHeader, <<LineB(2)>>),
     Entry(Dir \o CanRocMinuteByMinuteReportCsv, TRUE, CanrocHeader,
           <<CanrocDescriptions,
             <<IntervalLabel(1), <<"4", ".", "5">>, <<"1", "0", "1">>, <<>>,
               <<"7">>, <<"9", "0">>>>>>)}

ZipNames ==
    {<<"z">> \o DotZip,
     CanRocWord \o <<"_", "1">> \o DotZip,
     <<"a", "C", "A", "N", "R", "O", "C">> \o DotZip,
     <<"c", "a", "n", "r", "o">> \o DotZip}

\* the file is there and is an archive, is missing, or is not an archive
ZipFiles == {<<TRUE, TRUE>>, <<FALSE, FALSE>>, <<TRUE, FALSE>>}

SeqsUpTo(S, n) == UNION {[1..k -> S] : k \in 0..n}

Bundle(name, file, entries) ==
    [name |-> name, exists |-> file[1], is_zip |-> file[2],
     entries |-> entries]

SelectionBundles ==
    {Bundle(name, file, entries) :
        name \in ZipNames, file \in ZipFiles,
        entries \in SeqsUpTo(EntryChoices, MaxEntries)}

RowBundles ==
    {Bundle(<<"z">> \o DotZip, <<TRUE, TRUE>>,
            <<CaseStatisticsEntry, MinuteEntry(lines), PausesEntry,
              CanrocMinuteEntry(clines), SegmentsEntry>>) :
        lines \in SeqsUpTo(MinuteLines, MaxRows),
        clines \in SeqsUpTo(CanrocLines, MaxCanrocRows)}

IngestPending == [done |-> FALSE]

IngestInit ==
    /\ WizardUnused
    /\ DepsUnused
    /\ SessionUnused
    /\ JclsUnused
    /\ CtxUnused
    /\ zip_in \in SelectionBundles \cup RowBundles
    /\ zip_out = IngestPending

IngestZip ==
    /\ ~zip_out.done
    /\ zip_out' = [done |-> TRUE, result |-> ingest_zip(zip_in)]
    /\ UNCHANGED <<wizard_vars, deps_vars, zip_in, session_vars, jcls_vars,
                   ctx_vars>>

IngestNext == IngestZip

IngestSpec == IngestInit /\ [][IngestNext]_vars

-----------------------------------------------------------------------------
(* JcLS score (app/services/jcls_service.py).  A sub-scorer returns the   *)
(* pair <<earned, max>>; metric values are those of the ingestion above.  *)

MaxShocks == 2           \* shocks_delivered of a session

\* the number compared with a threshold, in thousandths
Num(value) == IF value[1] = "int" THEN value[2] * 1000 ELSE value[2]

\* value >= threshold and value <= threshold raise TypeError for a str
IsStr(value) == value # None /\ value[1] = "str"

\* _score_depth_compliance that scores a null value as the lowest band
_score_depth_compliance_penalised(value) ==
    IF value = None THEN <<3, 20>>
    ELSE IF Num(value) >= 80000 THEN <<20, 20>>
    ELSE IF Num(value) >= 65000 THEN <<16, 20>>
    ELSE IF Num(value) >= 50000 THEN <<12, 20>>
    ELSE IF Num(value) >= 35000 THEN <<7, 20>>
    ELSE <<3, 20>>

_score_depth_compliance(value) ==
    IF value = None THEN <<0, 0>>
    ELSE IF Num(value) >= 80000 THEN <<20, 20>>
    ELSE IF Num(value) >= 65000 THEN <<16, 20>>
    ELSE IF Num(value) >= 50000 THEN <<12, 20>>
    ELSE IF Num(value) >= 35000 THEN <<7, 20>>
    ELSE <<3, 20>>

_score_rate_compliance(value) ==
    IF value = None THEN <<0, 0>>
    ELSE IF Num(value) >= 85000 THEN <<15, 15>>
    ELSE IF Num(value) >= 70000 THEN <<12, 15>>
    ELSE IF Num(value) >= 55000 THEN <<8, 15>>
    ELSE IF Num(value) >= 40000 THEN <<4, 15>>
    ELSE <<1, 15>>

_score_combined_compliance(value) ==
    IF value = None THEN <<0, 0>>
    ELSE IF Num(value) >= 60000 THEN <<20, 20>>
    ELSE IF Num(value) >= 45000 THEN <<16, 20>>
    ELSE IF Num(value) >= 35000 THEN <<12, 20>>
    ELSE IF Num(value) >= 25000 THEN <<7, 20>>
    ELSE <<3, 20>>

_score_ccf(value) ==
    IF value = None THEN <<0, 0>>
    ELSE IF Num(value) >= 85000 THEN <<15, 15>>
    ELSE IF Num(value) >= 80000 THEN <<12, 15>>
    ELSE IF Num(value) >= 70000 THEN <<8, 15>>
    ELSE IF Num(value) >= 60000 THEN <<4, 15>>
    ELSE <<1, 15>>

_score_pause_mean(value) ==
    IF value = None THEN <<0, 0>>
    ELSE IF Num(value) <= 4000 THEN <<6, 6>>
    ELSE IF Num(value) <= 6000 THEN <<4, 6>>
    ELSE IF Num(value) <= 8000 THEN <<2, 6>>
    ELSE <<0, 6>>

_score_pause_long(pauses_over_10s) ==
    IF pauses_over_10s = None THEN <<0, 0>>
    ELSE IF ~IsStr(pauses_over_10s) /\ Num(pauses_over_10s) = 0 THEN <<4, 4>>
    ELSE IF ~IsStr(pauses_over_10s) /\ Num(pauses_over_10s) = 1000 THEN <<2, 4>>
    ELSE <<0, 4>>

_score_release_velocity(mean_vel, std_dev) ==
    IF mean_vel = None THEN <<0, 0>>
    ELSE IF Num(mean_vel) >= 400000 /\ std_dev # None /\ Num(std_dev) < 100000
    THEN <<10, 10>>
    ELSE IF Num(mean_vel) >= 400000 THEN <<8, 10>>
    ELSE IF Num(mean_vel) >= 350000 THEN <<6, 10>>
    ELSE IF Num(mean_vel) >= 300000 THEN <<3, 10>>
    ELSE <<1, 10>>

_score_time_to_first_compression(value) ==
    IF value = None THEN <<0, 0>>
    ELSE IF Num(value) <= 30000 THEN <<5, 5>>
    ELSE IF Num(value) <= 60000 THEN <<4, 5>>
    ELSE IF Num(value) <= 90000 THEN <<2, 5>>
    ELSE <<0, 5>>

\* _score_time_to_first_shock that excludes every absent value
_score_time_to_first_shock_no_neutral(value, shocks_delivered) ==
    IF value = None THEN <<0, 0>>
    ELSE IF Num(value) <= 120000 THEN <<5, 5>>
    ELSE IF Num(value) <= 180000 THEN <<3, 5>>
    ELSE <<1, 5>>

_score_time_to_first_shock(value, shocks_delivered) ==
    IF value = None THEN
        IF shocks_delivered # None /\ shocks_delivered = PyInt(0)
        THEN <<3, 5>> ELSE <<0, 0>>
    ELSE IF Num(value) <= 120000 THEN <<5, 5>>
    ELSE IF Num(value) <= 180000 THEN <<3, 5>>
    ELSE <<1, 5>>

\* _color_band with the green band starting above 80
_color_band_above_80(score) ==
    IF score > 80 THEN "green" ELSE IF score >= 60 THEN "yellow" ELSE "red"

_color_band(score) ==
    IF score >= 80 THEN "green" ELSE IF score >= 60 THEN "yellow" ELSE "red"

\* ScaledScore that keeps the absent sub-scores in the denominator
ScaledScore_of_100(raw_score, available_points) == raw_score

\* round(raw_score / available_points * 100).  The product is the exact
\* value or a double next to it; of the ties k + 1/2 the tables can give,
\* it falls below the tie for the ratio 23/40 (57.49999999999999) and is
\* exact for the others, which round half to even.
ScaledScore(raw_score, available_points) ==
    IF 40 * raw_score = 23 * available_points THEN 57
    ELSE RoundHalfEven(100 * raw_score, available_points)

\* the first comparison each sub-scorer makes, in the order of the calls of
\* calculate_jcls_score: the metric, the operator and the threshold's type
Comparisons(metrics) ==
    <<<<"correct_depth_percent", ">=", "int">>,
      <<"correct_rate_percent", ">=", "int">>,
      <<"compressions_in_target_percent", ">=", "int">>,
      <<"compression_fraction", ">=", "int">>,
      <<"mean_pause_duration", "<=", "float">>,
      <<"mean_release_velocity", ">=", "int">>>>
    \o (IF /\ Get(metrics, "mean_release_velocity") # None
           /\ ~IsStr(Get(metrics, "mean_release_velocity"))
           /\ Num(Get(metrics, "mean_release_velocity")) >= 400000
        THEN <<<<"release_velocity_std_dev", "<", "int">>>> ELSE <<>>)
    \o <<<<"seconds_to_first_compression", "<=", "int">>,
         <<"seconds_to_first_shock", "<=", "int">>>>

TypeErrorMessage(op, type) ==
    "'" \o op \o "' not supported between instances of 'str' and '"
        \o type \o "'"

\* the TypeError calculate_jcls_score raises, "" when it returns
RECURSIVE JclsErrorFrom(_, _, _)
JclsErrorFrom(metrics, cmp, i) ==
    IF i > Len(cmp) THEN ""
    ELSE IF IsStr(Get(metrics, cmp[i][1]))
    THEN TypeErrorMessage(cmp[i][2], cmp[i][3])
    ELSE JclsErrorFrom(metrics, cmp, i + 1)

JclsError(metrics) == JclsErrorFrom(metrics, Comparisons(metrics), 1)

JclsRaises(metrics) == JclsError(metrics) # ""

SubScores(metrics, shocks_delivered) ==
    [depth_compliance |->
         _score_depth_compliance(Get(metrics, "correct_depth_percent")),
     rate_compliance |->
         _score_rate_compliance(Get(metrics, "correct_rate_percent")),
     combined_compliance |->
         _score_combined_compliance(
             Get(metrics, "compressions_in_target_percent")),
     ccf |-> _score_ccf(Get(metrics, "compression_fraction")),
     mean_pause |-> _score_pause_mean(Get(metrics, "mean_pause_duration")),
     no_long_pauses |-> _score_pause_long(Get(metrics, "pauses_over_10s")),
     release_velocity |->
         _score_release_velocity(Get(metrics, "mean_release_velocity"),
                                 Get(metrics, "release_velocity_std_dev")),
     time_to_first_compression |->
         _score_time_to_first_compression(
             Get(metrics, "seconds_to_first_compression")),
     time_to_first_shock |->
         _score_time_to_first_shock(Get(metrics, "seconds_to_first_shock"),
                                    shocks_delivered)]

calculate_jcls_score(metrics, shocks_delivered) ==
    IF JclsRaises(metrics)
    THEN [raised |-> TRUE, message |-> JclsError(metrics)]
    ELSE LET s == SubScores(metrics, shocks_delivered)
             tier1 == <<s.depth_compliance[1] + s.rate_compliance[1]
                            + s.combined_compliance[1],
                        s.depth_compliance[2] + s.rate_compliance[2]
                            + s.combined_compliance[2]>>
             pause == <<s.mean_pause[1] + s.no_long_pauses[1],
                        s.mean_pause[2] + s.no_long_pauses[2]>>
             tier2 == <<s.ccf[1] + pause[1], s.ccf[2] + pause[2]>>
             tier3 == s.release_velocity
             tier4 == <<s.time_to_first_compression[1]
                            + s.time_to_first_shock[1],
                        s.time_to_first_compression[2]
                            + s.time_to_first_shock[2]>>
             raw_score == tier1[1] + tier2[1] + tier3[1] + tier4[1]
             available_points == tier1[2] + tier2[2] + tier3[2] + tier4[2]
             scaled_score == IF available_points > 0
                             THEN ScaledScore(raw_score, available_points)
                             ELSE 0
         IN  [raised |-> FALSE, jcls_score |-> scaled_score,
              color_band |-> _color_band(scaled_score),
              raw_score |-> raw_score, available_points |-> available_points,
              tier1 |-> tier1, tier2 |-> tier2, tier3 |-> tier3,
              tier4 |-> tier4, pause_quality |-> pause, sub |-> s]

\* the metric sets scored: each source metric absent or at a value of two
\* of its bands
JclsMetrics ==
    [correct_depth_percent : {None, PyFloat(80000), PyFloat(49900)},
     correct_rate_percent : {None, PyFloat(70000), PyFloat(39900)},
     compressions_in_target_percent : {None, PyFloat(24900)},
     compression_fraction : {None, PyFloat(85000)},
     mean_pause_duration : {None, PyFloat(6000)},
     pauses_over_10s : {None, PyInt(0), PyInt(2)},
     mean_release_velocity : {None, PyFloat(400000), PyFloat(399900)},
     release_velocity_std_dev : {None, PyFloat(99900)},
     seconds_to_first_compression : {None, PyFloat(30000)},
     seconds_to_first_shock :
         {None, PyFloat(120000), PyFloat(180000), PyFloat(180100)}]

ShocksDelivered == {None} \cup {PyInt(n) : n \in 0..MaxShocks}

JclsPending == [done |-> FALSE]

JclsInit ==
    /\ WizardUnused
    /\ DepsUnused
    /\ IngestUnused
    /\ SessionUnused
    /\ CtxUnused
    /\ jcls_in \in [metrics : JclsMetrics, shocks_delivered : ShocksDelivered]
    /\ jcls_out = JclsPending

CalculateJclsScore ==
    /\ ~jcls_out.done
    /\ jcls_out' = [done |-> TRUE,
                    result |-> calculate_jcls_score(jcls_in.metrics,
                                                    jcls_in.shocks_delivered)]
    /\ UNCHANGED <<wizard_vars, deps_vars, ingest_vars, session_vars, jcls_in,
                   ctx_vars>>

JclsNext == CalculateJclsScore

JclsSpec == JclsInit /\ [][JclsNext]_vars

-----------------------------------------------------------------------------
(* Sessions (app/mock_data.py), import of the stored artifact             *)
(* (process_session_import) and retry (app/services/session_service.py).   *)
(* A value that may be None is None, PyStr(s), PyInt(n) or PyDict(d).      *)

PyDict(d) == <<"dict", d>>

_UNSET == <<"_UNSET">>

\* the index in sessions of the first session with this id, 0 for None
get_session_by_id(sessions, session_id) ==
    IF \E i \in 1..Len(sessions) : sessions[i].id = session_id
    THEN CHOOSE i \in 1..Len(sessions) :
             /\ sessions[i].id = session_id
             /\ \A j \in 1..(i - 1) : sessions[j].id # session_id
    ELSE 0

\* update_session; updated_at, which nothing reads, is left out
update_session(sessions, session_id, updates) ==
    LET i == get_session_by_id(sessions, session_id)
    IN  IF i = 0 THEN sessions
        ELSE [sessions EXCEPT ![i] = Update(@, updates)]

update_session_status(sessions, session_id, status, error_message, metrics, canroc_master_payload, canroc_pco_payload) ==
    LET i == get_session_by_id(sessions, session_id)
    IN  IF i = 0 THEN sessions
        ELSE [sessions EXCEPT ![i] =
                [@ EXCEPT
                    !.status = status,
                    !.error_message =
                        IF error_message # _UNSET THEN error_message ELSE @,
                    !.metrics = IF metrics # None THEN metrics[2] ELSE @,
                    !.canroc_master_payload =
                        IF canroc_master_payload # None
                        THEN canroc_master_payload ELSE @,
                    !.canroc_pco_payload =
                        IF canroc_pco_payload # None
                        THEN canroc_pco_payload ELSE @]]

mark_session_complete(sessions, session_id, metrics, canroc_pco_payload) ==
    update_session_status(sessions, session_id, "complete", None, metrics,
                          None, canroc_pco_payload)

mark_session_failed(sessions, session_id, error_message) ==
    update_session_status(sessions, session_id, "failed", error_message, None,
                          None, None)

\* can_retry_session that does not look at the status
can_retry_session_any_status(sessions, file, session_id) ==
    LET i == get_session_by_id(sessions, session_id)
    IN  IF i = 0 THEN <<FALSE, "Session not found">>
        ELSE IF sessions[i].artifact = None
        THEN <<FALSE, "No artifact stored for retry">>
        ELSE IF file = <<>>
        THEN <<FALSE, "Artifact file no longer exists">>
        ELSE <<TRUE, "Session can be retried">>

\* file is the file at artifact.file_path, <<>> when the path does not exist
can_retry_session(sessions, file, session_id) ==
    LET i == get_session_by_id(sessions, session_id)
    IN  IF i = 0 THEN <<FALSE, "Session not found">>
        ELSE IF sessions[i].status # "failed"
        THEN <<FALSE, "Session status is '" \o sessions[i].status
                          \o "', not 'failed'">>
        ELSE IF sessions[i].artifact = None
        THEN <<FALSE, "No artifact stored for retry">>
        ELSE IF file = <<>>
        THEN <<FALSE, "Artifact file no longer exists">>
        ELSE <<TRUE, "Session can be retried">>

\* retry_session after the status is reset
RetryQueued(after, session_id) ==
    [sessions |-> after,
     result |-> <<TRUE, "Session queued for retry",
                  PyDict(after[get_session_by_id(after, session_id)])>>]

RetryWith(sessions, session_id, can) ==
    IF ~can[1]
    THEN [sessions |-> sessions, result |-> <<FALSE, can[2], None>>]
    ELSE RetryQueued(update_session_status(sessions, session_id, "importing",
                                           None, None, None, None),
                     session_id)

\* the sessions afterwards and the tuple returned
retry_session(sessions, file, session_id) ==
    RetryWith(sessions, session_id,
              can_retry_session(sessions, file, session_id))

\* the fields of SessionMetrics (app/models.py) a parsed metrics_dict has as
\* text when the cell is not a number; Session(**session) rejects the text
SessionMetricsFields ==
    {"duration", "compression_rate", "compression_depth",
     "compression_fraction", "correct_depth_percent", "correct_rate_percent"}

SessionValidates(session) ==
    \A k \in SessionMetricsFields \cap DOMAIN session.metrics :
        ~IsStr(session.metrics[k])

\* the wizard states stored for a session that validates
WizardsOf(sessions, session_id, session, pco_payload) ==
    IF ~SessionValidates(session) THEN sessions
    ELSE update_session(sessions, session_id,
             [canroc_wizard_pco |->
                  PyDict([template_id |-> "pco",
                          zip_autofill |->
                              {k \in DOMAIN pco_payload :
                                  pco_payload[k] # None}]),
              canroc_wizard_master |->
                  PyDict([template_id |-> "master",
                          zip_autofill |->
                              IF session.date # "" THEN {"cr_epdt"}
                              ELSE {}])])

\* _initialize_canroc_wizards.  A wizard state is represented by its
\* template and the ids of the fields upserted with provenance
\* zip_autofill; an exception is logged and nothing is stored.
_initialize_canroc_wizards(sessions, session_id, pco_payload) ==
    WizardsOf(sessions, session_id,
              sessions[get_session_by_id(sessions, session_id)], pco_payload)

\* the except branches: the session marked failed, (False, message, None)
ImportFailed(sessions, session_id, message) ==
    [sessions |-> mark_session_failed(sessions, session_id, PyStr(message)),
     result |-> <<FALSE, PyStr(message), None>>]

\* the wizards of the session mark_session_complete returned, if any
ImportWizards(completed, session_id, pco_payload) ==
    IF get_session_by_id(completed, session_id) # 0
    THEN _initialize_canroc_wizards(completed, session_id, pco_payload)
    ELSE completed

\* the end of the try block
ImportComplete(sessions, session_id, metrics_dict, pco_payload) ==
    [sessions |->
         ImportWizards(mark_session_complete(sessions, session_id,
                                             PyDict(metrics_dict),
                                             PyDict(pco_payload)),
                       session_id, pco_payload),
     result |-> <<TRUE, PyStr("Import successful"), PyDict(metrics_dict)>>]

\* the score of a real-call session added to the metrics
ImportScored(sessions, session_id, ingested, jcls_result) ==
    IF jcls_result.raised
    THEN ImportFailed(sessions, session_id,
                      "Unexpected error: " \o jcls_result.message)
    ELSE ImportComplete(sessions, session_id,
                        Put(Put(ingested.metrics_dict, "jcls_score",
                                PyInt(jcls_result.jcls_score)),
                            "jcls_breakdown", PyDict(jcls_result)),
                        ingested.pco_payload)

\* the session of a real call, the one whose metrics are scored
IsRealCall(sessions, i) == i # 0 /\ sessions[i].session_type = "real_call"

\* process_session_import once ingest_zip returned or raised
ImportIngested(sessions, session_id, ingested, i) ==
    IF ~ingested.ok THEN ImportFailed(sessions, session_id, ingested.error)
    ELSE IF IsRealCall(sessions, i)
    THEN ImportScored(sessions, session_id, ingested,
                      calculate_jcls_score(ingested.metrics_dict,
                                           sessions[i].shocks_delivered))
    ELSE ImportComplete(sessions, session_id, ingested.metrics_dict,
                        ingested.pco_payload)

\* the sessions afterwards and the tuple returned; bundle is the file at
\* artifact_path
process_session_import(sessions, session_id, bundle) ==
    ImportIngested(sessions, session_id, ingest_zip(bundle),
                   get_session_by_id(sessions, session_id))

\* delete_artifact: the file afterwards
delete_artifact(sessions, file, session_id) ==
    LET i == get_session_by_id(sessions, session_id)
    IN  IF i # 0 /\ sessions[i].artifact # None /\ file # <<>>
        THEN [file |-> <<>>, result |-> TRUE]
        ELSE [file |-> file, result |-> FALSE]

ArtifactPath == "uploads/1.zip"

\* create_session: the record appended to SESSIONS
create_session(session_type, shocks_delivered, primary_provider_id, artifact, zoll_data_available) ==
    [id |-> "S1",
     session_type |-> session_type,
     status |-> IF primary_provider_id = None THEN "pending"
                ELSE IF session_type = "real_call" /\ ~zoll_data_available
                THEN "complete"
                ELSE "importing",
     date |-> "2026-01-01",
     shocks_delivered |-> shocks_delivered,
     metrics |-> EmptyDict,
     artifact |-> artifact,
     error_message |-> None,
     canroc_master_payload |-> None,
     canroc_pco_payload |-> None,
     canroc_wizard_pco |-> None,
     canroc_wizard_master |-> None]

\* a summary line with text under one of its columns
SummaryLineWith(column, text) ==
    [j \in 1..Len(SummaryHeader) |->
        IF SummaryHeader[j] = column THEN text ELSE SummaryLine[j]]

StoredEntries(summary_line) ==
    <<Entry(CaseStatisticsCsv, TRUE, SummaryHeader, <<summary_line>>),
      MinuteEntry(<<LineA(1)>>), PausesEntry, SegmentsEntry>>

\* the artifacts stored: three that parse, two of them with text in a
\* scored column of the summary, then an archive without the per-interval
\* file, a file that is no archive, undecodable text and an ignored name
StoredBundles ==
    {Bundle(<<"z">> \o DotZip, <<TRUE, TRUE>>, StoredEntries(SummaryLine)),
     Bundle(<<"z">> \o DotZip, <<TRUE, TRUE>>,
            StoredEntries(SummaryLineWith("Seconds to First Shock", cNA))),
     Bundle(<<"z">> \o DotZip, <<TRUE, TRUE>>,
            StoredEntries(SummaryLineWith("% in Target Depth manual", cNA))),
     Bundle(<<"z">> \o DotZip, <<TRUE, TRUE>>, <<CaseStatisticsEntry>>),
     Bundle(<<"z">> \o DotZip, <<TRUE, FALSE>>, <<>>),
     Bundle(<<"z">> \o DotZip, <<TRUE, TRUE>>,
            <<Entry(CaseStatisticsCsv, FALSE, SummaryHeader, <<SummaryLine>>),
              MinuteEntry(<<LineA(1)>>)>>),
     Bundle(CanRocWord \o <<"_", "1">> \o DotZip, <<TRUE, TRUE>>,
            StoredEntries(SummaryLine))}

SessionTypes == {"real_call", "simulated"}

\* a known id and one no session has
SessionIds == {"S1", "S0"}

\* one session created from the form, with or without an uploaded artifact
SessionInit ==
    /\ WizardUnused
    /\ DepsUnused
    /\ IngestUnused
    /\ JclsUnused
    /\ CtxUnused
    /\ \E session_type \in SessionTypes, shocks_delivered \in ShocksDelivered,
          primary_provider_id \in {None, PyStr("P1")},
          zoll_data_available \in BOOLEAN, uploaded \in BOOLEAN :
          /\ SESSIONS =
                <<create_session(session_type, shocks_delivered,
                                 primary_provider_id,
                                 IF uploaded
                                 THEN PyDict([file_path |-> ArtifactPath])
                                 ELSE None,
                                 zoll_data_available)>>
          /\ IF uploaded THEN \E bundle \in StoredBundles :
                                  artifact_file = <<bundle>>
             ELSE artifact_file = <<>>
    /\ call = <<>>

ProcessSessionImport(session_id) ==
    /\ artifact_file # <<>>
    /\ \E done \in {process_session_import(SESSIONS, session_id,
                                           artifact_file[1])} :
           /\ SESSIONS' = done.sessions
           /\ call' = <<[op |-> "process_session_import",
                         session_id |-> session_id, result |-> done.result]>>
    /\ UNCHANGED <<wizard_vars, deps_vars, ingest_vars, artifact_file,
                   jcls_vars, ctx_vars>>

RetrySession(session_id) ==
    /\ \E done \in {retry_session(SESSIONS, artifact_file, session_id)} :
           /\ SESSIONS' = done.sessions
           /\ call' = <<[op |-> "retry_session", session_id |-> session_id,
                         result |-> done.result]>>
    /\ UNCHANGED <<wizard_vars, deps_vars, ingest_vars, artifact_file,
                   jcls_vars, ctx_vars>>

DeleteArtifact(session_id) ==
    /\ \E done \in {delete_artifact(SESSIONS, artifact_file, session_id)} :
           /\ artifact_file' = done.file
           /\ call' = <<[op |-> "delete_artifact", session_id |-> session_id,
                         result |-> <<done.result>>]>>
    /\ UNCHANGED <<wizard_vars, deps_vars, ingest_vars, SESSIONS, jcls_vars,
                   ctx_vars>>

SessionNext ==
    \E session_id \in SessionIds :
        \/ ProcessSessionImport(session_id)
        \/ RetrySession(session_id)
        \/ DeleteArtifact(session_id)

SessionSpec == SessionInit /\ [][SessionNext]_vars

-----------------------------------------------------------------------------
(* The service singletons and the schema cache across a change of the     *)
(* active service (app/service_context.py, schema_service.py,             *)
(* wizard_service.py, and the handlers of app/routers that use them)      *)

MaxChanges == 2         \* calls of set_active_service and clear_active_service
MaxHandlers == 2        \* requests in flight at the same time

Slugs == {S1("a"), S1("b")}

Requests == 1..MaxHandlers

\* the template of the wizard pages the handlers save
SavedTemplates == {"master"}

\* _get_schemas_dir: the directory load_schema reads the schema file from
_get_schemas_dir(slug) ==
    IF slug = None THEN <<"bundle">> ELSE <<"services", slug>>

\* a freshly constructed SchemaService: _schemas is empty
NewSchemaService == [_schemas |-> EmptyDict]

\* get_schema_service: the singleton, created on first use; ref is the
\* object returned, services the objects that exist afterwards
get_schema_service(services, singleton) ==
    IF singleton = 0
    THEN [services |-> Append(services, NewSchemaService),
          ref |-> Len(services) + 1]
    ELSE [services |-> services, ref |-> singleton]

\* SchemaService.load_schema on the object ref: the cached schema when
\* the template is in _schemas, else the file of the directory of the
\* active service, which is then cached. A schema is the directory it was
\* read from and the instant it was loaded at.
SchemaService_load_schema(services, ref, t, slug, instant) ==
    IF t \in DOMAIN services[ref]._schemas
    THEN [services |-> services, schema |-> services[ref]._schemas[t]]
    ELSE [services |->
              [services EXCEPT ![ref]._schemas =
                  Put(@, t, [dir |-> _get_schemas_dir(slug),
                             loaded_at |-> instant])],
          schema |-> [dir |-> _get_schemas_dir(slug), loaded_at |-> instant]]

\* what a step read: the schema and the instant of the read
Read(schema, instant) == [schema |-> schema, read_at |-> instant]

NoHandler == [pc |-> "idle", schema_service |-> 0, wizard_service |-> 0]

CtxInit ==
    /\ WizardUnused
    /\ DepsUnused
    /\ IngestUnused
    /\ SessionUnused
    /\ JclsUnused
    /\ _active_service_slug = None
    /\ changes = 0
    /\ _schema_service = 0
    /\ _wizard_service = 0
    /\ schema_services = <<>>
    /\ wizard_services = <<>>
    /\ handlers = [r \in Requests |-> NoHandler]
    /\ schema_read = <<>>

CtxFrame ==
    UNCHANGED <<wizard_vars, deps_vars, ingest_vars, session_vars, jcls_vars>>

\* _clear_all_caches: the module singletons are reset to None; the
\* objects they referred to are left as they are
_clear_all_caches ==
    /\ _schema_service' = 0
    /\ _wizard_service' = 0
    /\ UNCHANGED <<schema_services, wizard_services, handlers>>

SetActiveService(slug) ==
    /\ changes < MaxChanges
    /\ _active_service_slug' = slug
    /\ changes' = changes + 1
    /\ _clear_all_caches
    /\ schema_read' = <<>>
    /\ CtxFrame

ClearActiveService ==
    /\ changes < MaxChanges
    /\ _active_service_slug' = None
    /\ changes' = changes + 1
    /\ _clear_all_caches
    /\ schema_read' = <<>>
    /\ CtxFrame

\* get_wizard_service: the singleton, created on first use by
\* WizardService(), whose __init__ keeps get_schema_service() in
\* self.schema_service; got is what get_schema_service returned to it
GetWizardService(got) ==
    /\ schema_services' = got.services
    /\ _schema_service' = got.ref
    /\ IF _wizard_service = 0
       THEN /\ wizard_services' =
                  Append(wizard_services, [schema_service |-> got.ref])
            /\ _wizard_service' = Len(wizard_services) + 1
       ELSE UNCHANGED <<wizard_services, _wizard_service>>

\* canroc_save_page up to `await request.form()`: the handler takes
\* get_schema_service() and get_wizard_service() into local variables
CanrocSavePageBegin(r) ==
    /\ handlers[r].pc = "idle"
    /\ GetWizardService(get_schema_service(schema_services, _schema_service))
    /\ handlers' = [handlers EXCEPT ![r] =
          [pc |-> "await_form",
           schema_service |-> _schema_service',
           wizard_service |-> _wizard_service']]
    /\ schema_read' = <<>>
    /\ UNCHANGED <<_active_service_slug, changes>>
    /\ CtxFrame

\* the lookups of canroc_save_page after the form has arrived: those of
\* schema_service.is_cno_allowed and get_page through the local
\* SchemaService, got1, and those of wizard_service.save_page through the
\* SchemaService the local WizardService keeps, got2
SavePageReads(r, got1, got2) ==
    /\ schema_services' = got2.services
    /\ schema_read' = <<Read(got1.schema, changes), Read(got2.schema, changes)>>
    /\ handlers' = [handlers EXCEPT ![r] = NoHandler]

CanrocSavePageResume(r, t) ==
    /\ handlers[r].pc = "await_form"
    /\ \E got1 \in {SchemaService_load_schema(
                        schema_services, handlers[r].schema_service, t,
                        _active_service_slug, changes)} :
        \E got2 \in {SchemaService_load_schema(
                        got1.services,
                        wizard_services[handlers[r].wizard_service].schema_service,
                        t, _active_service_slug, changes)} :
            SavePageReads(r, got1, got2)
    /\ UNCHANGED <<_active_service_slug, changes, _schema_service,
                   _wizard_service, wizard_services>>
    /\ CtxFrame

CtxNext ==
    \/ \E slug \in Slugs : SetActiveService(slug)
    \/ ClearActiveService
    \/ \E r \in Requests : CanrocSavePageBegin(r)
    \/ \E r \in Requests, t \in SavedTemplates : CanrocSavePageResume(r, t)

CtxSpec == CtxInit /\ [][CtxNext]_vars

-----------------------------------------------------------------------------
(* Properties of the wizard *)

\* the field ids the schema of template t declares
SchemaFieldIds(t) ==
    UNION {{f.field_id : f \in Range(load_schema(t).pages[i].fields)} :
              i \in 1..Len(load_schema(t).pages)}

\* the required fields of the schema that are neither Filled nor CannotObtain
RequiredNotDone(ws) ==
    {f \in Range(load_schema(template_id).required_fields) :
        \/ f \notin DOMAIN ws.field_values
        \/ ws.field_values[f].state \notin {"filled", "cno"}}

ErrorFields(errors) == {errors[i].field_id : i \in 1..Len(errors)}

\* C1: complete_wizard with a required field that is neither Filled nor
\* CannotObtain fails with one error per such field and leaves the whole
\* wizard state as it was.
C1_GateLeavesStateUnchanged ==
    [][(last'.op = "complete_wizard" /\ RequiredNotDone(wizard_state) # {}) =>
          /\ ~last'.ok
          /\ Len(last'.errors) = Cardinality(RequiredNotDone(wizard_state))
          /\ ErrorFields(last'.errors) = RequiredNotDone(wizard_state)
          /\ wizard_state' = wizard_state]_vars

C1_Witness ==
    /\ last.op = "complete_wizard"
    /\ ~last.ok
    /\ Len(last.errors) > 0
    /\ wizard_state.status = "in_progress"
    /\ wizard_state.field_values # EmptyDict
    /\ SchemaFieldIds(template_id) \ DOMAIN wizard_state.field_values # {}

MissingMarkerValue(t) ==
    [value |-> IF load_schema(t).has_missing_marker
               THEN load_schema(t).missing_marker ELSE S1("."),
     provenance |-> "missing_marker", state |-> "normalized",
     cno_reason |-> None]

\* C2: complete_wizard with every required field Filled or CannotObtain
\* succeeds; afterwards every schema field has a stored value, the fields
\* that had none hold the missing marker (provenance missing_marker, state
\* normalized), the values that existed are unchanged, status is complete
\* and completion_percent is 100.
C2_CompleteFillsEveryGap ==
    [][(last'.op = "complete_wizard" /\ RequiredNotDone(wizard_state) = {}) =>
          /\ last'.ok
          /\ SchemaFieldIds(template_id) \subseteq DOMAIN wizard_state'.field_values
          /\ \A f \in SchemaFieldIds(template_id) \ DOMAIN wizard_state.field_values :
                wizard_state'.field_values[f] = MissingMarkerValue(template_id)
          /\ \A f \in DOMAIN wizard_state.field_values :
                wizard_state'.field_values[f] = wizard_state.field_values[f]
          /\ DOMAIN wizard_state'.field_values =
                DOMAIN wizard_state.field_values \cup SchemaFieldIds(template_id)
          /\ wizard_state'.status = "complete"
          /\ wizard_state'.completion_percent.num =
                100 * wizard_state'.completion_percent.den]_vars

C2_Witness ==
    /\ last.op = "complete_wizard"
    /\ last.ok
    /\ \E f \in SchemaFieldIds(template_id) :
          wizard_state.field_values[f].provenance = "missing_marker"
    /\ \E f \in SchemaFieldIds(template_id) :
          wizard_state.field_values[f].provenance = "zip_autofill"

\* C3: once the overall status is complete, no later call sets it back to
\* in_progress or not_started.
C3_CompleteIsTerminal ==
    [][wizard_state.status = "complete" =>
          wizard_state'.status = "complete"]_vars

\* the snapshot save_page evaluates the rules on: stored values overlaid
\* with the incoming ones
CombinedSnapshot(ws, incoming) ==
    [f \in (DOMAIN ws.field_values) \cup (DOMAIN incoming) |->
        IF f \in DOMAIN incoming THEN incoming[f] ELSE ws.field_values[f].value]

BlankValue(v) == v = None \/ Strip(v) \in {<<>>, S1(".")}

\* the field is shown and its incoming value raises no validation error
PassesValidation(ws, t, field, incoming) ==
    LET v == Get(incoming, field.field_id)
        d == evaluate_dependencies(t, field.field_id,
                                   CombinedSnapshot(ws, incoming))
    IN  /\ d.should_show
        /\ ~(/\ d.is_required
             /\ BlankValue(v)
             /\ ~(/\ field.field_id \in DOMAIN ws.field_values
                  /\ ws.field_values[field.field_id].state = "cno"))
        /\ ~(/\ field.type = "choice"
             /\ ~BlankValue(v)
             /\ v \notin Range(field.choices))

PassedFields(ws, t, page_id, incoming) ==
    {f.field_id : f \in {g \in Range(get_page(t, page_id).fields) :
                            PassesValidation(ws, t, g, incoming)}}

\* C4 as stated: the fields save_page upserts are exactly the fields of the
\* page that passed validation.
C4_UpsertedEqualsPassed ==
    [][last'.op = "save_page" =>
          last'.upserted = PassedFields(wizard_state, template_id,
                                        last'.page_id, last'.field_values)]_vars

\* C4 amended: the fields save_page upserts are exactly the fields of the
\* page that passed validation and came with a non-null incoming value; a
\* field that raised an error is not upserted, whatever its siblings did.
C4_UpsertedEqualsPassedAndSupplied ==
    [][last'.op = "save_page" =>
          /\ last'.upserted =
                {f \in PassedFields(wizard_state, template_id, last'.page_id,
                                    last'.field_values) :
                    Get(last'.field_values, f) # None}
          /\ last'.upserted \cap ErrorFields(last'.errors) = {}
          /\ \A f \in ErrorFields(last'.errors) :
                Get(wizard_state'.field_values, f) =
                    Get(wizard_state.field_values, f)]_vars

C4_Witness ==
    /\ last.op = "save_page"
    /\ last.errors # <<>>
    /\ last.upserted # {}
    /\ \E i \in 1..Len(last.errors) : last.errors[i].kind = "invalid"

\* C5: every key of field_values is a field id the schema declares.
C5_KeysAreSchemaFields ==
    DOMAIN wizard_state.field_values \subseteq SchemaFieldIds(template_id)

SchemaAllowsCno(t, fid) ==
    \E i \in 1..Len(load_schema(t).pages) :
        \E f \in Range(load_schema(t).pages[i].fields) :
            f.field_id = fid /\ f.cno_allowed

\* C6: mark_field_cno on a field the schema does not allow cannot-obtain
\* for, or does not declare, returns None and leaves the wizard state as
\* it was.
C6_CnoNotAllowedIsRejected ==
    [][(/\ last'.op = "mark_field_cno"
        /\ ~SchemaAllowsCno(template_id, last'.field_id)) =>
          (~last'.ok /\ wizard_state' = wizard_state)]_vars

C6_Witness ==
    /\ last.op = "mark_field_cno"
    /\ ~last.ok
    /\ last.field_id \in SchemaFieldIds(template_id)
    /\ last.field_id \in DOMAIN wizard_state.field_values
    /\ wizard_state.last_saved_at < now - 1

OwnerPages(t, fid) ==
    {load_schema(t).pages[i].page_id :
        i \in {j \in 1..Len(load_schema(t).pages) :
                  \E f \in Range(load_schema(t).pages[j].fields) :
                      f.field_id = fid}}

\* C7: a single-field update (upsert_field, also through mark_field_cno and
\* clear_field_cno) leaves the status of every page but the one owning the
\* field as it was.
C7_OtherPagesUntouched ==
    [][last'.op \in {"upsert_field", "mark_field_cno", "clear_field_cno"} =>
          \A p \in DOMAIN wizard_state.page_statuses :
              p \notin OwnerPages(template_id, last'.field_id) =>
                  wizard_state'.page_statuses[p] = wizard_state.page_statuses[p]]_vars

\* the first call after initialize_wizard was upsert_field, and a page
\* that does not own the field would get another status from a recompute
C7_Witness ==
    /\ last.op = "upsert_field"
    /\ now = 2
    /\ \E p \in DOMAIN wizard_state.page_statuses :
          /\ p \notin OwnerPages(template_id, last.field_id)
          /\ recompute_completion(wizard_state, template_id).page_statuses[p]
                # wizard_state.page_statuses[p]

C9_RoundTripUnchanged ==
    last.op = "initialize_wizard" =>
        \A f \in DOMAIN last.payload :
            last.payload[f] # None =>
                /\ f \in DOMAIN export_to_payload(wizard_state)
                /\ export_to_payload(wizard_state)[f] = last.payload[f]

\* the canonical form of an autofill value for a field of the given type
Canonical(v, type, decimals) ==
    IF Strip(v) \in {<<>>, S1(".")} THEN S1(".")
    ELSE IF type = "integer" /\ IsFloatLiteral(Strip(v)) THEN IntStr(Strip(v))
    ELSE IF type = "float" /\ IsFloatLiteral(Strip(v))
         THEN FloatStr(Strip(v), decimals)
    ELSE Strip(v)

SchemaField(t, fid) ==
    CHOOSE f \in UNION {Range(load_schema(t).pages[i].fields) :
                           i \in 1..Len(load_schema(t).pages)} : f.field_id = fid

CanonicalFor(t, fid, v) ==
    IF fid \in SchemaFieldIds(t)
    THEN Canonical(v, SchemaField(t, fid).type,
                   IF SchemaField(t, fid).decimals = NoDecimals THEN 2
                   ELSE SchemaField(t, fid).decimals)
    ELSE Canonical(v, "text", 2)

\* C9 amended: right after initialize_wizard the exported payload maps each
\* field with a non-null autofill value to the canonical form of that value
\* (trimmed; blank or "." as "."; integer fields truncated; float fields
\* with the field's decimals), hence to the value itself when it already
\* is canonical.
C9_RoundTripCanonical ==
    last.op = "initialize_wizard" =>
        \A f \in DOMAIN last.payload :
            last.payload[f] # None =>
                /\ f \in DOMAIN export_to_payload(wizard_state)
                /\ export_to_payload(wizard_state)[f] =
                       CanonicalFor(template_id, f, last.payload[f])
                /\ CanonicalFor(template_id, f, last.payload[f]) = last.payload[f]
                       => export_to_payload(wizard_state)[f] = last.payload[f]

\* an autofill value that is not canonical, next to session metrics for the
\* same field
C9_Witness ==
    /\ last.op = "initialize_wizard"
    /\ template_id = "pco"
    /\ \E f \in DOMAIN last.payload \cap DOMAIN last.metrics :
          /\ last.payload[f] # None
          /\ last.metrics[f] # None
          /\ export_to_payload(wizard_state)[f] # last.payload[f]

\* whether the condition of the i-th rule of the evaluated list is met
DepMet(i) == ConditionMet(dep_in.dependencies[i], dep_in.field_values)

\* the rules of the evaluated list with one of the given actions
DepRulesWith(actions) ==
    {i \in 1..Len(dep_in.dependencies) :
        dep_in.dependencies[i].action \in actions}

LastOf(S) == CHOOSE i \in S : \A j \in S : j <= i

\* should_show: TRUE without a show, hide or show_and_require rule,
\* otherwise what the last of them says
RefShouldShow ==
    IF DepRulesWith({"show", "hide", "show_and_require"}) = {} THEN TRUE
    ELSE IF dep_in.dependencies[
                LastOf(DepRulesWith({"show", "hide", "show_and_require"}))
            ].action = "hide"
    THEN ~DepMet(LastOf(DepRulesWith({"show", "hide", "show_and_require"})))
    ELSE DepMet(LastOf(DepRulesWith({"show", "hide", "show_and_require"})))

\* is_required: the static flag, or the condition of the last
\* show_and_require rule, turned on by any met require rule after it
RefIsRequired ==
    IF DepRulesWith({"show_and_require"}) = {} THEN
        \/ dep_in.base_required
        \/ \E i \in DepRulesWith({"require"}) : DepMet(i)
    ELSE
        \/ DepMet(LastOf(DepRulesWith({"show_and_require"})))
        \/ \E i \in DepRulesWith({"require"}) :
              /\ i > LastOf(DepRulesWith({"show_and_require"}))
              /\ DepMet(i)

\* C10: evaluate_dependencies starts from should_show = TRUE and
\* is_required = the static flag and applies the rules in order: the last
\* show, hide or show_and_require rule alone decides should_show (show and
\* show_and_require: condition met; hide: condition not met); a require
\* rule only ever turns is_required on; a show_and_require rule sets
\* is_required to whether its condition is met.
C10_DependencyFold ==
    dep_out.done =>
        /\ dep_out.should_show = RefShouldShow
        /\ dep_out.is_required = RefIsRequired

\* a met show_and_require rule followed by an unmet require rule and a
\* hide rule that overwrites should_show
C10_Witness ==
    /\ dep_out.done
    /\ Len(dep_in.dependencies) = 3
    /\ dep_in.dependencies[1].action = "show_and_require"
    /\ DepMet(1)
    /\ dep_in.dependencies[2].action = "require"
    /\ ~DepMet(2)
    /\ dep_in.dependencies[3].action = "hide"
    /\ DepMet(3)
    /\ ~dep_in.base_required
    /\ dep_out.is_required
    /\ ~dep_out.should_show


-----------------------------------------------------------------------------
(* Properties of the ingestion *)

\* the letters of "canroc" in either casing
CanrocLetters == <<{"c", "C"}, {"a", "A"}, {"n", "N"}, {"r", "R"}, {"o", "O"},
                   {"c", "C"}>>

HasCanrocInAnyCasing(name) ==
    \E i \in 0..(Len(name) - 6) : \A j \in 1..6 : name[i + j] \in CanrocLetters[j]

\* the same bundle under a file name without the marker
Renamed(bundle) == [bundle EXCEPT !.name = <<"z">> \o DotZip]

\* C11: for a bundle whose file name contains "canroc" in any casing,
\* ingest_zip raises an IngestionError, and it does so without having
\* opened the archive or read any entry, whatever the archive contains.
C11_CanrocNameFailsUnopened ==
    (zip_out.done /\ HasCanrocInAnyCasing(zip_in.name)) =>
        /\ ~zip_out.result.ok
        /\ zip_out.result.error # ""
        /\ ~zip_out.result.opened
        /\ zip_out.result.read = {}

\* a bundle named with an upper-case marker that would otherwise be ingested
C11_Witness ==
    /\ zip_out.done
    /\ HasCanrocInAnyCasing(zip_in.name)
    /\ ~Contains(zip_in.name, canroc)
    /\ ingest_zip(Renamed(zip_in)).ok
    /\ ~zip_out.result.ok

\* the entries named as the per-interval file, and those named with the
\* vendor marker in front of that name
AuthoritativeMinuteEntries(bundle) ==
    {i \in 1..Len(bundle.entries) :
        Lower(Basename(bundle.entries[i].path)) = Lower(MinuteByMinuteReportCsv)}

PrefixedMinuteEntries(bundle) ==
    {i \in 1..Len(bundle.entries) :
        Lower(Basename(bundle.entries[i].path))
            = Lower(CanRocMinuteByMinuteReportCsv)}

\* the interval number of data row i of a per-interval file: the number
\* its label carries, or the position of the row for a label without one
RowInterval(entry, i) ==
    LET label == RowGet(entry.header, entry.lines[i], "Interval") IN
        IF IntervalMatch(label) >= 0 THEN IntervalMatch(label) ELSE i

\* the column of a per-interval file a per-minute field is read from
SlotColumn == [cr_cmprt |-> "Mean Compression Rate",
               cr_cprff |-> "Compression Fraction",
               cr_cdpth |-> "Mean Compression Depth (cms)",
               cr_etco2 |-> "Mean EtCO2",
               cr_secun |-> "Seconds Without Compression"]

\* the value of a per-minute field that data row i of the file gives:
\* the cell rounded to two decimals for the depth and to one otherwise,
\* null for a blank or non-numeric cell
RowSlotValue(entry, i, prefix) ==
    LET cell == RowGet(entry.header, entry.lines[i], SlotColumn[prefix]) IN
        IF cell = <<>> \/ FloatRaises(cell) THEN None
        ELSE PyFloat(Round(FloatOf(cell), IF prefix = "cr_cdpth" THEN 2 ELSE 1))

\* the value of minute slot n of the file: that of its last row numbered n
FileSlotValue(entry, prefix, n) ==
    LET rows == {i \in 1..Len(entry.lines) : RowInterval(entry, i) = n} IN
        IF rows = {} THEN None
        ELSE RowSlotValue(entry, CHOOSE i \in rows : \A j \in rows : j <= i,
                          prefix)

\* C12: when a bundle holds both the authoritative per-interval file and
\* the file of the same name prefixed with the vendor marker, with
\* different values, in any entry order and at any directory depth, every
\* minute slot of the parsed metrics has the authoritative file's value.
C12_AuthoritativeFileWins ==
    (/\ zip_out.done
     /\ zip_out.result.ok
     /\ PrefixedMinuteEntries(zip_in) # {}
     /\ \A i, j \in AuthoritativeMinuteEntries(zip_in) :
            zip_in.entries[i].lines = zip_in.entries[j].lines) =>
        \A i \in AuthoritativeMinuteEntries(zip_in), sl \in PcoSlots :
            zip_out.result.metrics_dict[SlotKey(sl[1], sl[2])]
                = FileSlotValue(zip_in.entries[i], sl[1], sl[2])

\* the prefixed file comes first and has another rate for minute 2, the
\* authoritative one lies in a directory
C12_Witness ==
    /\ zip_out.done
    /\ zip_out.result.ok
    /\ \E i \in PrefixedMinuteEntries(zip_in),
          j \in AuthoritativeMinuteEntries(zip_in) :
        /\ i < j
        /\ Basename(zip_in.entries[j].path) # zip_in.entries[j].path
        /\ zip_in.entries[i].header = zip_in.entries[j].header
        /\ FileSlotValue(zip_in.entries[i], "cr_cmprt", 2)
               # FileSlotValue(zip_in.entries[j], "cr_cmprt", 2)
        /\ zip_out.result.metrics_dict["cr_cmprt2"]
               = FileSlotValue(zip_in.entries[j], "cr_cmprt", 2)
        /\ zip_out.result.metrics_dict["cr_cmprt2"] # None

\* C13: merging the pre-formatted per-minute file never overrides a slot
\* computed from the authoritative per-interval file: every minute slot
\* for which the authoritative computation gave a non-null value holds
\* that value in the returned minute payload.
C13_MergeKeepsAuthoritative ==
    (zip_out.done /\ zip_out.result.ok) =>
        \A sl \in PcoSlots :
            LET key == SlotKey(sl[1], sl[2]) IN
                zip_out.result.metrics_dict[key] # None =>
                    /\ key \in DOMAIN zip_out.result.pco_payload
                    /\ zip_out.result.pco_payload[key]
                           = zip_out.result.metrics_dict[key]

\* C14: for every interval number N outside 1..10 that a parsed file of
\* the bundle carries, neither the returned metrics nor the returned
\* minute payload has a slot keyed by N.
C14_NoSlotOutsideWindow ==
    (zip_out.done /\ zip_out.result.ok) =>
        \A prefix \in PcoPrefixes, N \in {0} \cup (11..12) :
            /\ SlotKey(prefix, N) \notin DOMAIN zip_out.result.metrics_dict
            /\ SlotKey(prefix, N) \notin DOMAIN zip_out.result.pco_payload

\* the whole-session fields that the summary row of CaseStatisticsEntry
\* gives: 73 percent in target depth, a mean depth of 5.375 kept to two
\* decimals, 12.5 compressions as a count, a target range kept as text,
\* and null for every other column
SummaryRowFields ==
    [name \in DOMAIN CASE_STATS_COLUMNS |->
        CASE name = "correct_depth_percent" -> PyFloat(73000)
          [] name = "compression_depth" -> PyFloat(5380)
          [] name = "total_compressions" -> PyInt(12)
          [] name = "target_depth_setting" ->
                PyStr(<<"5", " ", "t", "o", " ", "6">>)
          [] OTHER -> None]

-----------------------------------------------------------------------------
(* Properties of the import and the retry of a session *)

\* the step is a call of process_session_import for the session S1
ImportStep ==
    /\ call' # <<>>
    /\ call'[1].op = "process_session_import"
    /\ call'[1].session_id = "S1"
    /\ artifact_file # <<>>

\* the fields of a session the import writes besides status and error
StoredFields ==
    {"metrics", "canroc_master_payload", "canroc_pco_payload",
     "canroc_wizard_pco", "canroc_wizard_master"}

\* C16: when parsing the stored artifact raises an IngestionError, the
\* import leaves the session failed with the error's message as
\* error_message, returns (False, message, None) and stores no metrics, no
\* payload and no wizard state; when parsing succeeds the session ends
\* complete with the parsed metrics stored.
C16_ImportOutcome ==
    [][ImportStep =>
        LET parsed == ingest_zip(artifact_file[1])
        IN  IF ~parsed.ok
            THEN /\ SESSIONS'[1].status = "failed"
                 /\ SESSIONS'[1].error_message = PyStr(parsed.error)
                 /\ call'[1].result = <<FALSE, PyStr(parsed.error), None>>
                 /\ \A k \in StoredFields : SESSIONS'[1][k] = SESSIONS[1][k]
            ELSE /\ SESSIONS'[1].status = "complete"
                 /\ \A k \in DOMAIN parsed.metrics_dict :
                        /\ k \in DOMAIN SESSIONS'[1].metrics
                        /\ SESSIONS'[1].metrics[k] = parsed.metrics_dict[k]]_vars

\* the half of C16 about an IngestionError
C16_FatalParseFails ==
    [][ImportStep /\ ~ingest_zip(artifact_file[1]).ok =>
        /\ SESSIONS'[1].status = "failed"
        /\ SESSIONS'[1].error_message = PyStr(ingest_zip(artifact_file[1]).error)
        /\ call'[1].result =
               <<FALSE, PyStr(ingest_zip(artifact_file[1]).error), None>>
        /\ \A k \in StoredFields : SESSIONS'[1][k] = SESSIONS[1][k]]_vars

\* a parsed artifact left the session failed
C16_ParsedButFailed ==
    /\ call # <<>>
    /\ call[1].op = "process_session_import"
    /\ call[1].session_id = "S1"
    /\ artifact_file # <<>>
    /\ ingest_zip(artifact_file[1]).ok
    /\ SESSIONS[1].status = "failed"

\* the step is a call of retry_session
RetryStep == call' # <<>> /\ call'[1].op = "retry_session"

\* the session of that id exists, is failed and its artifact file exists
Retryable(session_id) ==
    \E i \in 1..Len(SESSIONS) :
        /\ SESSIONS[i].id = session_id
        /\ SESSIONS[i].status = "failed"
        /\ SESSIONS[i].artifact # None
        /\ artifact_file # <<>>

\* C17: retry_session succeeds exactly when the session exists, its status
\* is failed and its stored artifact file still exists; on success the
\* status becomes importing and error_message is cleared; in every other
\* case it returns failure and the session record is unchanged.
C17_RetryOnlyFailed ==
    [][RetryStep =>
        /\ call'[1].result[1] = Retryable(call'[1].session_id)
        /\ IF Retryable(call'[1].session_id)
           THEN \A i \in 1..Len(SESSIONS) :
                    SESSIONS[i].id = call'[1].session_id =>
                        /\ SESSIONS'[i].status = "importing"
                        /\ SESSIONS'[i].error_message = None
           ELSE SESSIONS' = SESSIONS /\ call'[1].result[3] = None]_vars

\* a failed import was queued for retry
C17_Witness ==
    /\ call # <<>>
    /\ call[1].op = "retry_session"
    /\ call[1].result[1]
    /\ SESSIONS[1].status = "importing"
    /\ SESSIONS[1].error_message = None
    /\ SESSIONS[1].artifact # None
    /\ artifact_file # <<>>
    /\ ~ingest_zip(artifact_file[1]).ok

-----------------------------------------------------------------------------
(* Properties of the JcLS score *)

\* the source metric and the maximum of each sub-score
SubScoreSource ==
    [depth_compliance |-> "correct_depth_percent",
     rate_compliance |-> "correct_rate_percent",
     combined_compliance |-> "compressions_in_target_percent",
     ccf |-> "compression_fraction",
     mean_pause |-> "mean_pause_duration",
     no_long_pauses |-> "pauses_over_10s",
     release_velocity |-> "mean_release_velocity",
     time_to_first_compression |-> "seconds_to_first_compression",
     time_to_first_shock |-> "seconds_to_first_shock"]

SubScoreMax ==
    [depth_compliance |-> 20, rate_compliance |-> 15,
     combined_compliance |-> 20, ccf |-> 15, mean_pause |-> 6,
     no_long_pauses |-> 4, release_velocity |-> 10,
     time_to_first_compression |-> 5, time_to_first_shock |-> 5]

SubScoreNames == DOMAIN SubScoreSource

Present(name) == jcls_in.metrics[SubScoreSource[name]] # None

\* the neutral case: no time to first shock and no shock delivered
NeutralShock(name) ==
    /\ name = "time_to_first_shock"
    /\ ~Present(name)
    /\ jcls_in.shocks_delivered = PyInt(0)

RECURSIVE SumOver(_, _)
SumOver(names, f) ==
    IF names = {} THEN 0
    ELSE LET n == CHOOSE n \in names : TRUE
         IN  f[n] + SumOver(names \ {n}, f)

Earned == [n \in SubScoreNames |-> jcls_out.result.sub[n][1]]

\* s is 100 * raw / available rounded to the nearest integer
NearestInteger(s, raw, available) ==
    /\ 2 * (100 * raw - s * available) <= available
    /\ 2 * (s * available - 100 * raw) <= available

\* the totals are those of the sub-scores named
TotalsOver(names) ==
    /\ jcls_out.result.available_points = SumOver(names, SubScoreMax)
    /\ jcls_out.result.raw_score = SumOver(names, Earned)
    /\ IF jcls_out.result.available_points = 0
       THEN jcls_out.result.jcls_score = 0
       ELSE NearestInteger(jcls_out.result.jcls_score,
                           jcls_out.result.raw_score,
                           jcls_out.result.available_points)

\* C18 as stated: every sub-score whose source metric is null contributes 0
\* earned and 0 max; available_points is the sum of the maxima of only the
\* sub-scores whose source metric is present, raw_score the sum of their
\* earned points, and jcls_score is 100 * raw_score / available_points
\* rounded to the nearest integer, or 0 when available_points is 0.
C18_NullExcluded_AsStated ==
    jcls_out.done =>
        /\ \A n \in SubScoreNames :
               ~Present(n) => jcls_out.result.sub[n] = <<0, 0>>
        /\ TotalsOver({n \in SubScoreNames : Present(n)})

\* C18, amended: a sub-score whose source metric is null contributes 0
\* earned and 0 max, except time to first shock with shocksDelivered = 0,
\* which contributes 3 of 5; available_points and raw_score are the sums
\* over the sub-scores whose metric is present and over that neutral
\* sub-score, and jcls_score is 100 * raw_score / available_points rounded
\* to the nearest integer, or 0 when available_points is 0.
C18_NullExcluded ==
    jcls_out.done =>
        /\ \A n \in SubScoreNames :
               ~Present(n) =>
                   jcls_out.result.sub[n] =
                       IF NeutralShock(n) THEN <<3, 5>> ELSE <<0, 0>>
        /\ \A n \in SubScoreNames :
               Present(n) => jcls_out.result.sub[n][2] = SubScoreMax[n]
        /\ TotalsOver({n \in SubScoreNames : Present(n) \/ NeutralShock(n)})

\* a score over a reduced denominator: depth compliance and the release
\* velocity are null, the rate compliance is not
C18_Witness ==
    /\ jcls_out.done
    /\ ~Present("depth_compliance")
    /\ ~Present("release_velocity")
    /\ Present("rate_compliance")
    /\ jcls_out.result.available_points = 15
    /\ jcls_out.result.raw_score = 12
    /\ jcls_out.result.jcls_score = 80

\* C19: a present time to first shock is banded (<= 120 gives 5 of 5,
\* <= 180 gives 3 of 5, more gives 1 of 5); an absent one with
\* shocksDelivered = 0 scores 3 of 5 and is counted in the denominator; an
\* absent one with null or non-zero shocksDelivered gives 0 of 0.
C19_FirstShockThreeWay ==
    jcls_out.done =>
        LET value == jcls_in.metrics.seconds_to_first_shock
            scored == jcls_out.result.sub.time_to_first_shock
            ttfc == jcls_out.result.sub.time_to_first_compression
        IN  /\ scored =
                   IF value # None
                   THEN IF value[2] <= 120000 THEN <<5, 5>>
                        ELSE IF value[2] <= 180000 THEN <<3, 5>>
                        ELSE <<1, 5>>
                   ELSE IF jcls_in.shocks_delivered = PyInt(0) THEN <<3, 5>>
                   ELSE <<0, 0>>
            /\ jcls_out.result.tier4 =
                   <<ttfc[1] + scored[1], ttfc[2] + scored[2]>>
            /\ jcls_out.result.available_points >= scored[2]
            /\ jcls_out.result.raw_score >= scored[1]

\* no time to first shock, no shock delivered and no other metric: the
\* neutral 3 of 5 is the whole score
C19_Witness ==
    /\ jcls_out.done
    /\ jcls_in.metrics.seconds_to_first_shock = None
    /\ jcls_in.metrics.seconds_to_first_compression = None
    /\ jcls_in.shocks_delivered = PyInt(0)
    /\ jcls_out.result.sub.time_to_first_shock = <<3, 5>>
    /\ jcls_out.result.tier4 = <<3, 5>>
    /\ jcls_out.result.available_points = 5

\* every source metric of the metric set is null
AllNull == \A k \in DOMAIN jcls_in.metrics : jcls_in.metrics[k] = None

\* C20 as stated: for a metric set in which every source metric is null
\* the score is 0 and available_points is 0, whatever shocksDelivered is.
C20_AllNullIsZero_AsStated ==
    jcls_out.done /\ AllNull =>
        /\ jcls_out.result.jcls_score = 0
        /\ jcls_out.result.available_points = 0

\* C20, amended: for a metric set in which every source metric is null the
\* score is 0 and available_points is 0 when shocksDelivered is null or not
\* zero; when shocksDelivered is 0 the neutral 3 of 5 of the time to first
\* shock is the whole score, 60 over 5 available points.
C20_AllNullIsZero ==
    jcls_out.done /\ AllNull =>
        IF jcls_in.shocks_delivered = PyInt(0)
        THEN /\ jcls_out.result.jcls_score = 60
             /\ jcls_out.result.available_points = 5
             /\ jcls_out.result.raw_score = 3
        ELSE /\ jcls_out.result.jcls_score = 0
             /\ jcls_out.result.available_points = 0
             /\ jcls_out.result.raw_score = 0

\* an all-null metric set scored for a session with a shock delivered
C20_Witness ==
    /\ jcls_out.done
    /\ AllNull
    /\ jcls_in.shocks_delivered = PyInt(1)
    /\ jcls_out.result.jcls_score = 0
    /\ jcls_out.result.available_points = 0
    /\ jcls_out.result.color_band = "red"

\* the sub-scores of each tier
TierSubScores ==
    [tier1 |-> {"depth_compliance", "rate_compliance", "combined_compliance"},
     tier2 |-> {"ccf", "mean_pause", "no_long_pauses"},
     tier3 |-> {"release_velocity"},
     tier4 |-> {"time_to_first_compression", "time_to_first_shock"}]

Maxima == [n \in SubScoreNames |-> jcls_out.result.sub[n][2]]

\* C21: for every metric set and every shocksDelivered the result is
\* well-formed: each sub-score has 0 <= earned <= max, each tier's earned
\* and max are the sums over its sub-metrics, raw_score <=
\* available_points <= 100, jcls_score is in 0..100, and color_band is
\* green iff jcls_score >= 80, yellow iff 60 <= jcls_score < 80, red
\* otherwise.
C21_ResultWellFormed ==
    jcls_out.done =>
        /\ \A n \in SubScoreNames :
               /\ 0 <= jcls_out.result.sub[n][1]
               /\ jcls_out.result.sub[n][1] <= jcls_out.result.sub[n][2]
        /\ \A t \in DOMAIN TierSubScores :
               jcls_out.result[t] = <<SumOver(TierSubScores[t], Earned),
                                      SumOver(TierSubScores[t], Maxima)>>
        /\ jcls_out.result.pause_quality =
               <<SumOver({"mean_pause", "no_long_pauses"}, Earned),
                 SumOver({"mean_pause", "no_long_pauses"}, Maxima)>>
        /\ jcls_out.result.raw_score =
               jcls_out.result.tier1[1] + jcls_out.result.tier2[1]
                   + jcls_out.result.tier3[1] + jcls_out.result.tier4[1]
        /\ jcls_out.result.available_points =
               jcls_out.result.tier1[2] + jcls_out.result.tier2[2]
                   + jcls_out.result.tier3[2] + jcls_out.result.tier4[2]
        /\ jcls_out.result.raw_score <= jcls_out.result.available_points
        /\ jcls_out.result.available_points <= 100
        /\ jcls_out.result.jcls_score \in 0..100
        /\ (jcls_out.result.color_band = "green")
               <=> jcls_out.result.jcls_score >= 80
        /\ (jcls_out.result.color_band = "yellow")
               <=> (jcls_out.result.jcls_score >= 60
                    /\ jcls_out.result.jcls_score < 80)
        /\ (jcls_out.result.color_band = "red")
               <=> jcls_out.result.jcls_score < 60

\* every metric present, all 100 points available, a score of 78
C21_Witness ==
    /\ jcls_out.done
    /\ \A k \in DOMAIN jcls_in.metrics : jcls_in.metrics[k] # None
    /\ jcls_out.result.available_points = 100
    /\ jcls_out.result.raw_score = 78
    /\ jcls_out.result.jcls_score = 78
    /\ jcls_out.result.color_band = "yellow"

\* the last call ended with _recompute_completion over the whole state
Recomputed == last.op \in {"initialize_wizard", "save_page"}

\* the schema fields that are Filled or CannotObtain, hidden ones included
SchemaDone(ws) ==
    {f \in SchemaFieldIds(template_id) : IsFilled(ws.field_values, f)}

\* C22: after every whole-state recompute (end of initialize_wizard and of
\* save_page) completion_percent is 100 * (schema fields Filled or
\* CannotObtain) / (schema fields), so it lies between 0 and 100, and
\* missing_required is exactly the set of required-list ids that are
\* neither Filled nor CannotObtain.
C22_PercentCountsSchemaFields ==
    Recomputed =>
        /\ wizard_state.completion_percent.num
              * Cardinality(SchemaFieldIds(template_id)) =
           100 * Cardinality(SchemaDone(wizard_state))
              * wizard_state.completion_percent.den
        /\ wizard_state.completion_percent.num >= 0
        /\ wizard_state.completion_percent.num <=
              100 * wizard_state.completion_percent.den
        /\ Range(wizard_state.missing_required) = RequiredNotDone(wizard_state)

\* C23: after every whole-state recompute the overall status is complete
\* exactly when missing_required is empty and completion_percent reaches
\* the schema's minimum; otherwise it is in_progress when at least one
\* stored value is Filled or CannotObtain and not_started when none is, so
\* a state with no filled value is not in_progress.
C23_StatusFollowsRecompute ==
    Recomputed =>
        /\ wizard_state.status = "complete" <=>
              /\ wizard_state.missing_required = <<>>
              /\ PercentGeq(wizard_state.completion_percent,
                            load_schema(template_id).minimum_completion_percent_x100)
        /\ wizard_state.status # "complete" =>
              /\ FilledFields(wizard_state.field_values) > 0 =>
                    wizard_state.status = "in_progress"
              /\ FilledFields(wizard_state.field_values) = 0 =>
                    wizard_state.status = "not_started"
        /\ FilledFields(wizard_state.field_values) = 0 =>
              wizard_state.status # "in_progress"

\* a save_page that stored a blank: a value is stored, none is filled
C23_Witness ==
    /\ last.op = "save_page"
    /\ last.upserted # {}
    /\ wizard_state.field_values # EmptyDict
    /\ FilledFields(wizard_state.field_values) = 0
    /\ wizard_state.status = "not_started"


\* the fields of the page that evaluate to hidden against the stored values
\* overlaid with the incoming ones
HiddenFields(ws, t, page_id, incoming) ==
    {f.field_id : f \in {g \in Range(get_page(t, page_id).fields) :
        ~evaluate_dependencies(t, g.field_id,
                               CombinedSnapshot(ws, incoming)).should_show}}

\* C24: save_page skips a field of the page that is hidden against the
\* combined current-plus-incoming snapshot: the field raises no validation
\* error, required and blank or outside its choice set as it may be, and
\* its stored FieldValue, or the absence of one, is the same after the call
\* as before, whatever value came in for it.
C24_HiddenFieldSkipped ==
    [][last'.op = "save_page" =>
          \A f \in HiddenFields(wizard_state, template_id, last'.page_id,
                                last'.field_values) :
              /\ f \notin ErrorFields(last'.errors)
              /\ f \notin last'.upserted
              /\ (f \in DOMAIN wizard_state'.field_values) <=>
                    (f \in DOMAIN wizard_state.field_values)
              /\ f \in DOMAIN wizard_state.field_values =>
                    wizard_state'.field_values[f] = wizard_state.field_values[f]]_vars

\* save_page of pco page 2 with a blank for the required cr_duration, which
\* the stored cr_cmprt1 = "x" hides
C24_Witness ==
    /\ template_id = "pco"
    /\ last.op = "save_page"
    /\ last.page_id = 2
    /\ "cr_duration" \in DOMAIN last.field_values
    /\ last.field_values["cr_duration"] = <<>>
    /\ "cr_cmprt1" \in DOMAIN wizard_state.field_values
    /\ wizard_state.field_values["cr_cmprt1"].value = S1("x")
    /\ get_field("pco", "cr_duration").required
    /\ last.errors = <<>>
    /\ "cr_duration" \notin DOMAIN wizard_state.field_values

NoMissingMarkerProvenance(ws) ==
    \A f \in DOMAIN ws.field_values :
        ws.field_values[f].provenance # "missing_marker"

\* the non-null entries of a dict
NonNull(d) == {k \in DOMAIN d : d[k] # None}

\* the call recorded in l supplied a value for field f
SuppliedBy(l, f) ==
    \/ l.op = "upsert_field" /\ l.field_id = f
    \/ l.op = "mark_field_cno" /\ l.field_id = f /\ l.ok
    \/ l.op = "save_page" /\ f \in NonNull(l.field_values)

\* the schema fields that get their first stored value in the step
NewlyStored(ws, ws2) ==
    {f \in SchemaFieldIds(template_id) :
        f \notin DOMAIN ws.field_values /\ f \in DOMAIN ws2.field_values}

StaleRead(read) == read.schema.loaded_at < read.read_at

\* C26: clearing the caches is a barrier: after set_active_service or
\* clear_active_service no wizard or schema operation reads a schema that
\* was loaded under the previous context, also not through a SchemaService
\* or WizardService reference taken before the change.
C26_NoReadOfOldSchema ==
    \A i \in 1..Len(schema_read) : ~StaleRead(schema_read[i])

\* get_wizard_summary(...)["can_complete"]
can_complete(ws) == Len(ws.missing_required) = 0

\* C27: in every state reached by initialize_wizard, upsert_field,
\* mark_field_cno, clear_field_cno and save_page, can_complete is true
\* exactly when complete_wizard called in that state would succeed: the
\* stored missing_required is never stale.
C27_CanCompleteIsCurrent ==
    wizard_state.completed_at = NoTime =>
        /\ can_complete(wizard_state) <=>
              complete_wizard(wizard_state, template_id, now).ok
        /\ Range(wizard_state.missing_required) = RequiredNotDone(wizard_state)

\* the fields of the page that save_page finds shown and required, that
\* are stored in state cno, and whose incoming value is null or blank
KeptCnoFields(ws, t, page_id, incoming) ==
    {f.field_id : f \in {g \in Range(get_page(t, page_id).fields) :
        /\ evaluate_dependencies(t, g.field_id,
                                 CombinedSnapshot(ws, incoming)).should_show
        /\ evaluate_dependencies(t, g.field_id,
                                 CombinedSnapshot(ws, incoming)).is_required
        /\ g.field_id \in DOMAIN ws.field_values
        /\ ws.field_values[g.field_id].state = "cno"
        /\ BlankValue(Get(incoming, g.field_id))}}

\* C28: save_page never downgrades a cannot-obtain declaration: a shown
\* required field stored in state cno and sent null, an empty string or
\* the missing marker keeps its stored cno value and reason, and is not
\* listed in missing_required.
C28_SavePageKeepsCno ==
    [][last'.op = "save_page" =>
          \A f \in KeptCnoFields(wizard_state, template_id, last'.page_id,
                                 last'.field_values) :
              /\ f \in DOMAIN wizard_state'.field_values
              /\ wizard_state'.field_values[f] = wizard_state.field_values[f]
              /\ f \notin Range(wizard_state'.missing_required)]_vars

\* the incoming values without those of the fields save_page rejected
Accepted(incoming, errors) ==
    [f \in (DOMAIN incoming) \ ErrorFields(errors) |-> incoming[f]]

\* C29: in save_page an incoming value that validation rejects has no
\* influence on the other fields of the page: each of them is shown and
\* required as it would be with the rejected values left out of the
\* snapshot, that is, with the values that stay stored for those fields.
C29_RejectedValueHasNoInfluence ==
    [][last'.op = "save_page" =>
          \A f \in PageFieldIds(template_id, last'.page_id)
                      \ ErrorFields(last'.errors) :
              evaluate_dependencies(
                  template_id, f,
                  CombinedSnapshot(wizard_state, last'.field_values)) =
              evaluate_dependencies(
                  template_id, f,
                  CombinedSnapshot(wizard_state,
                                   Accepted(last'.field_values,
                                            last'.errors)))]_vars

\* the fields of the page shown against the stored values
VisibleFields(ws, t, page_id) ==
    {f \in PageFieldIds(t, page_id) :
        evaluate_dependencies(t, f, CurrentValues(ws.field_values)).should_show}

\* the shown fields of the page that are required against the stored values
VisibleRequired(ws, t, page_id) ==
    {f \in VisibleFields(ws, t, page_id) :
        evaluate_dependencies(t, f, CurrentValues(ws.field_values)).is_required}

\* C30: after a whole-state recompute a page whose visible fields are all
\* Filled or CannotObtain has status complete, with or without hidden
\* fields and with or without required fields, and no page is complete
\* while a visible required field of it is neither Filled nor CannotObtain.
C30_PageCompleteIffVisibleDone ==
    Recomputed =>
        \A p \in PageIds(template_id) :
            /\ (\A f \in VisibleFields(wizard_state, template_id, p) :
                    IsFilled(wizard_state.field_values, f)) =>
                  wizard_state.page_statuses[p] = "complete"
            /\ wizard_state.page_statuses[p] = "complete" =>
                  \A f \in VisibleRequired(wizard_state, template_id, p) :
                      IsFilled(wizard_state.field_values, f)
=============================================================================
